---- MODULE Spec2Model ----
(***************************************************************************)
(* Model of sleeper_mcp_server.cache.CacheManager: a TTL keyed in-memory   *)
(* store guarded by one lock, used by several callers.  Every block that   *)
(* the code runs under `with self._lock` is one atomic action; what the    *)
(* code does before taking the lock (reading the clock, building the       *)
(* entry) is a separate step of the calling thread.                        *)
(***************************************************************************)
EXTENDS Integers, Sequences, FiniteSets, TLC

\* ---------------------------------------------------------------- bounds
MaxTime == 1
MaxOps == 3
\* largest value of hits and of misses from which get_stats is computed
MaxCount == 8

Threads == { "t1", "t2" }

\* ---------------------------------------------------------------- inputs
\* Keys are strings; a string is modelled as the sequence of its characters
\* so that `pattern in key` can be computed.
Keys == { <<"a">>, <<"a", "b">> }
Patterns == { <<>>, <<"b">>, <<"b", "a">> }

\* Python's None: the "absent" result of get, and also a payload set accepts.
None == "None"

CacheDataType ==
    { "player_data", "league_settings", "matchup_data", "trending_players", "roster_data" }
\* the categories the modelled callers pass
UsedTypes == { "player_data", "roster_data" }

\* The (data, data_type, ttl_override) triples the modelled callers pass to
\* set.  Optional[int] ttl_override: <<>> is None, <<n>> is the integer n.
SetArgs ==
    { << "A", "player_data", <<>> >>,
      << None, "roster_data", <<>> >>,
      << "B", "roster_data", <<0>> >>,
      << "B", "player_data", <<-1>> >> }

DEFAULT_TTL_CONFIG ==
    [ dt \in CacheDataType |->
        CASE dt = "player_data" -> 3600
          [] dt = "league_settings" -> 86400
          [] dt = "matchup_data" -> 3600
          [] dt = "trending_players" -> 1800
          [] dt = "roster_data" -> 900 ]

VARIABLES
    now,      \* time.time()
    cache,    \* self._cache: a function whose DOMAIN is the set of stored keys
    stats,    \* self._stats
    pc,       \* per thread: "idle", "set" (entry built, lock not yet taken),
              \*             "cleanup" (clock read, lock not yet taken)
    local,    \* per thread: the locals of the call in progress
    nops,     \* number of calls started so far
    last,     \* history: the call that last went through the lock
    hist,     \* history: per key, what last happened to the key
    lock,     \* self._lock: the thread that holds it, or "free"
    frame,    \* per thread: the locals of a call that runs statement by statement
    err,      \* the first exception a call ended with, if any
    ghost,    \* history: what the statements run so far did to the store
    init_ttl_config, \* the ttl_config argument __init__ was called with
                     \* (<< >> for None and for an empty dict)
    glob,     \* the module global _cache_manager, the CacheManager instances
              \* constructed, and the callers of get_cache_manager
    client    \* a SleeperClient: its rate limiting state and the coroutines
              \* that run _make_request on it

vars == << now, cache, stats, pc, local, nops, last, hist, lock, frame, err, ghost,
           init_ttl_config, glob, client >>

\* mutant: the argument replaces the defaults of every category
ttl_config_replaced ==
    [ dt \in CacheDataType |->
        IF init_ttl_config = << >> THEN DEFAULT_TTL_CONFIG[dt]
        ELSE IF dt \in DOMAIN init_ttl_config THEN init_ttl_config[dt] ELSE 0 ]

\* self._ttl_config, lines 74-76: a copy of the defaults, updated with the
\* argument; it is never assigned after __init__
ttl_config ==
    [ dt \in CacheDataType |->
        IF dt \in DOMAIN init_ttl_config THEN init_ttl_config[dt]
        ELSE DEFAULT_TTL_CONFIG[dt] ]

\* ---------------------------------------------------------------- helpers
NoLocal == [ key |-> <<>>, entry |-> <<>>, ttl |-> <<>>, current_time |-> 0 ]

NoHist == [ kind |-> "never", data |-> None, data_type |-> "player_data",
            ttl |-> <<>>, at |-> 0, overwrote |-> FALSE, gets |-> 0 ]

CacheEntry(data, expires_at, created_at, data_type) ==
    [ data |-> data, expires_at |-> expires_at,
      created_at |-> created_at, data_type |-> data_type ]

\* mutant: the age is taken for the expiry
is_expired_by_age(entry, t) == t > entry.created_at

is_expired(entry, t) == t > entry.expires_at

\* mutant: key.startswith(pattern)
StartsWith(pattern, key) ==
    Len(pattern) <= Len(key) /\ SubSeq(key, 1, Len(pattern)) = pattern

\* `pattern in key` on Python strings: pattern is a contiguous part of key
Contains(pattern, key) ==
    \E i \in 0..(Len(key) - Len(pattern)) :
        SubSeq(key, i + 1, i + Len(pattern)) = pattern

\* del self._cache[k] for every k in ks
Without(c, ks) == [ k \in (DOMAIN c) \ ks |-> c[k] ]

\* mutant: an existing entry is kept (setdefault)
With_setdefault(c, key, entry) ==
    [ k \in (DOMAIN c) \cup {key} |-> IF k \in DOMAIN c THEN c[k] ELSE entry ]

\* self._cache[key] = entry
With(c, key, entry) ==
    [ k \in (DOMAIN c) \cup {key} |-> IF k = key THEN entry ELSE c[k] ]

Bump(s, field, n) == [ s EXCEPT ![field] = @ + n ]

\* the history record of a call that went through the lock
Call(op, key, arg, at, ret) ==
    [ op |-> op, key |-> key, arg |-> arg, at |-> at, ret |-> ret,
      pre_cache |-> cache, pre_stats |-> stats, pre_hist |-> hist ]

\* keys removed by a call other than invalidate(key) lose their history
Removed(h, ks) ==
    [ k \in Keys |-> IF k \in ks THEN [ NoHist EXCEPT !.kind = "removed" ] ELSE h[k] ]

\* the locals of a call that runs statement by statement under the lock
NoFrame ==
    [ op |-> "none", key |-> <<>>, arg |-> <<>>, entry |-> <<>>,
      keys_to_remove |-> {}, removed |-> {}, ret |-> None,
      incs |-> <<>>, tmp |-> 0, after |-> "return",
      pre_cache |-> << >>, pre_stats |-> << >> ]

NoErr == [ op |-> "none", exc |-> "none" ]

\* the module after import, line 347: _cache_manager is None (written 0;
\* the instances are numbered from 1), no CacheManager is constructed
\* (stores gives, per instance, the keys set on it), no call of
\* get_cache_manager is under way (pc) and none has returned (got gives, per
\* thread, the instance its last call returned)
NoGlob ==
    [ cache_manager |-> 0,
      stores |-> << >>,
      pc |-> [ t \in Threads |-> "idle" ],
      got |-> [ t \in Threads |-> 0 ],
      calls |-> 0 ]

\* the coroutines that call _make_request on one SleeperClient
Coroutines == { "c1", "c2" }

\* a coroutine outside _make_request: its position, retry_count, the
\* current_time local of _wait_for_rate_limit, the time its sleep ends, and,
\* for the properties, the HTTP attempts of its call, how the call ended and
\* what the call last retried on
NoCo ==
    [ pc |-> "idle", retry_count |-> 0, current_time |-> 0, wake |-> 0,
      attempts |-> 0, result |-> "none", retried_on |-> "none" ]

\* SleeperClient.__init__, lines 82-84: the rate limiting state of a new
\* client; for the properties, sent lists the times at which the last two
\* requests left _wait_for_rate_limit, window counts them since _rate_limit_reset_time
\* was last assigned, calls counts the calls of _make_request
NoClient ==
    [ last_request_time |-> 0, request_count |-> 0, rate_limit_reset_time |-> 0,
      co |-> [ c \in Coroutines |-> NoCo ],
      sent |-> << >>, window |-> 0, calls |-> 0 ]

\* gets: get calls that took the lock; added: keys a set added to the store;
\* expired, invalidated: entries deleted for expiry and explicitly;
\* torn: the call, if any, that deleted an entry other than the one it had
\* looked at
NoGhost == [ gets |-> 0, added |-> 0, expired |-> 0, invalidated |-> 0, torn |-> "none" ]

\* ---------------------------------------------------------------- Init
Init ==
    /\ now = 0
    /\ cache = << >>
    /\ stats = [ hits |-> 0, misses |-> 0, evictions |-> 0, invalidations |-> 0 ]
    /\ pc = [ t \in Threads |-> "idle" ]
    /\ local = [ t \in Threads |-> NoLocal ]
    /\ nops = 0
    /\ last = [ op |-> "init", key |-> <<>>, arg |-> <<>>, at |-> 0, ret |-> None,
                pre_cache |-> << >>, pre_stats |-> stats, pre_hist |-> [ k \in Keys |-> NoHist ] ]
    /\ hist = [ k \in Keys |-> NoHist ]
    /\ lock = "free"
    /\ frame = [ t \in Threads |-> NoFrame ]
    /\ err = NoErr
    /\ ghost = NoGhost
    /\ init_ttl_config = << >>
    /\ glob = NoGlob
    /\ client = NoClient

\* ---------------------------------------------------------------- actions
Tick ==
    /\ now < MaxTime
    /\ now' = now + 1
    /\ UNCHANGED << cache, stats, pc, local, nops, last, hist >>
    /\ UNCHANGED << lock, frame, err, ghost, init_ttl_config, glob, client >>

\* the counters after each of get's three outcomes
\* mutant: the miss on an absent key is counted as a hit
get_miss_stats_as_hit(s) == Bump(s, "hits", 1)
\* mutant: the eviction on read is not counted as a miss
get_expired_stats_no_miss(s) == Bump(s, "evictions", 1)

get_miss_stats(s) == Bump(s, "misses", 1)
get_expired_stats(s) == Bump(Bump(s, "evictions", 1), "misses", 1)
get_hit_stats(s) == Bump(s, "hits", 1)

\* mutant: a hit hands the entry out and drops it from the store
get_outcome_pop(c, s, current_time, key, data_type) ==
    IF key \notin DOMAIN c
    THEN [ cache |-> c, stats |-> get_miss_stats(s), ret |-> None ]
    ELSE IF is_expired(c[key], current_time)
    THEN [ cache |-> Without(c, {key}), stats |-> get_expired_stats(s), ret |-> None ]
    ELSE [ cache |-> Without(c, {key}), stats |-> get_hit_stats(s), ret |-> c[key].data ]

\* mutant: an entry stored under another category counts as absent
get_outcome_typed(c, s, current_time, key, data_type) ==
    IF key \notin DOMAIN c \/ c[key].data_type # data_type
    THEN [ cache |-> c, stats |-> get_miss_stats(s), ret |-> None ]
    ELSE IF is_expired(c[key], current_time)
    THEN [ cache |-> Without(c, {key}), stats |-> get_expired_stats(s), ret |-> None ]
    ELSE [ cache |-> c, stats |-> get_hit_stats(s), ret |-> c[key].data ]

\* CacheManager.get, lines 99-117: the store and the counters it leaves and
\* the value it returns, from the store c and the counters s it finds and
\* the clock value is_expired reads (data_type is used in the log messages
\* only)
get_outcome(c, s, current_time, key, data_type) ==
    IF key \notin DOMAIN c
    THEN [ cache |-> c, stats |-> get_miss_stats(s), ret |-> None ]
    ELSE IF is_expired(c[key], current_time)
    THEN [ cache |-> Without(c, {key}), stats |-> get_expired_stats(s), ret |-> None ]
    ELSE [ cache |-> c, stats |-> get_hit_stats(s), ret |-> c[key].data ]

\* CacheManager.get: the whole body runs under the lock; arg is what `last`
\* keeps of the arguments besides the key
get_recorded(t, key, data_type, arg) ==
    /\ pc[t] = "idle"
    /\ nops < MaxOps
    /\ nops' = nops + 1
    /\ LET o == get_outcome(cache, stats, now, key, data_type)
       IN /\ cache' = o.cache
          /\ stats' = o.stats
          /\ last' = Call("get", key, arg, now, o.ret)
    /\ hist' = [ hist EXCEPT ![key].gets = 1 ]
    /\ UNCHANGED << now, pc, local >>
    /\ UNCHANGED << lock, frame, err, ghost, init_ttl_config, glob, client >>

\* CacheManager.get
get(t, key, data_type) == get_recorded(t, key, data_type, <<>>)

\* CacheManager.get, the category passed being kept in `last`
get_as(t, key, data_type) == get_recorded(t, key, data_type, data_type)

\* mutant: a negative ttl_override is raised to 0
set_ttl_clamped(ttl_override, data_type) ==
    IF ttl_override # <<>>
    THEN (IF ttl_override[1] < 0 THEN 0 ELSE ttl_override[1])
    ELSE ttl_config[data_type]

\* mutant: ttl_override or self._ttl_config[data_type], 0 counting as none
set_ttl_falsy(ttl_override, data_type) ==
    IF ttl_override # <<>> /\ ttl_override[1] # 0
    THEN ttl_override[1]
    ELSE ttl_config[data_type]

\* CacheManager.set, line 129: the TTL of the new entry
set_ttl(ttl_override, data_type) ==
    IF ttl_override # <<>> THEN ttl_override[1] ELSE ttl_config[data_type]

\* CacheManager.set, before the lock: ttl, clock read, entry construction
set_begin(t, key, data, data_type, ttl_override) ==
    /\ pc[t] = "idle"
    /\ nops < MaxOps
    /\ nops' = nops + 1
    /\ LET ttl == set_ttl(ttl_override, data_type)
           current_time == now
           expires_at == current_time + ttl
       IN local' = [ local EXCEPT ![t] =
                       [ key |-> key,
                         entry |-> CacheEntry(data, expires_at, current_time, data_type),
                         ttl |-> ttl_override,
                         current_time |-> current_time ] ]
    /\ pc' = [ pc EXCEPT ![t] = "set" ]
    /\ UNCHANGED << now, cache, stats, last, hist >>
    /\ UNCHANGED << lock, frame, err, ghost, init_ttl_config, glob, client >>

\* CacheManager.set, under the lock: self._cache[key] = entry
set_store(t) ==
    /\ pc[t] = "set"
    /\ LET key == local[t].key
           entry == local[t].entry
       IN /\ cache' = With(cache, key, entry)
          /\ last' = Call("set", key, << entry.data, entry.data_type, local[t].ttl >>,
                          local[t].current_time, None)
          /\ hist' = [ hist EXCEPT ![key] =
                         [ kind |-> "set", data |-> entry.data,
                           data_type |-> entry.data_type, ttl |-> local[t].ttl,
                           at |-> local[t].current_time,
                           overwrote |-> key \in DOMAIN cache, gets |-> 0 ] ]
    /\ pc' = [ pc EXCEPT ![t] = "idle" ]
    /\ local' = [ local EXCEPT ![t] = NoLocal ]
    /\ UNCHANGED << now, stats, nops >>
    /\ UNCHANGED << lock, frame, err, ghost, init_ttl_config, glob, client >>

\* mutant: the key is popped and counted without a presence check
invalidate_unchecked(t, key) ==
    /\ pc[t] = "idle"
    /\ nops < MaxOps
    /\ nops' = nops + 1
    /\ cache' = Without(cache, {key})
    /\ stats' = Bump(stats, "invalidations", 1)
    /\ last' = Call("invalidate", key, <<>>, now, key \in DOMAIN cache)
    /\ hist' = [ hist EXCEPT ![key] = [ NoHist EXCEPT !.kind = "invalidated" ] ]
    /\ UNCHANGED << now, pc, local >>
    /\ UNCHANGED << lock, frame, err, ghost, init_ttl_config, glob, client >>

\* CacheManager.invalidate
invalidate(t, key) ==
    /\ pc[t] = "idle"
    /\ nops < MaxOps
    /\ nops' = nops + 1
    /\ IF key \in DOMAIN cache
       THEN /\ cache' = Without(cache, {key})
            /\ stats' = Bump(stats, "invalidations", 1)
            /\ last' = Call("invalidate", key, <<>>, now, TRUE)
       ELSE /\ cache' = cache
            /\ stats' = stats
            /\ last' = Call("invalidate", key, <<>>, now, FALSE)
    /\ hist' = [ hist EXCEPT ![key] = [ NoHist EXCEPT !.kind = "invalidated" ] ]
    /\ UNCHANGED << now, pc, local >>
    /\ UNCHANGED << lock, frame, err, ghost, init_ttl_config, glob, client >>

\* the keys invalidate_by_pattern collects: `pattern in key`
PatternKeys(c, pattern) == { key \in DOMAIN c : Contains(pattern, key) }

\* CacheManager.invalidate_by_pattern
invalidate_by_pattern(t, pattern) ==
    /\ pc[t] = "idle"
    /\ nops < MaxOps
    /\ nops' = nops + 1
    /\ LET keys_to_remove == PatternKeys(cache, pattern)
       IN /\ cache' = Without(cache, keys_to_remove)
          /\ stats' = Bump(stats, "invalidations", Cardinality(keys_to_remove))
          /\ last' = Call("invalidate_by_pattern", <<>>, pattern, now,
                          Cardinality(keys_to_remove))
          /\ hist' = Removed(hist, keys_to_remove)
    /\ UNCHANGED << now, pc, local >>
    /\ UNCHANGED << lock, frame, err, ghost, init_ttl_config, glob, client >>

\* mutant: the comparison is inverted
TypeKeys_other(c, data_type) == { key \in DOMAIN c : c[key].data_type # data_type }

\* the keys invalidate_by_type collects: entry.data_type == data_type
TypeKeys(c, data_type) == { key \in DOMAIN c : c[key].data_type = data_type }

\* CacheManager.invalidate_by_type
invalidate_by_type(t, data_type) ==
    /\ pc[t] = "idle"
    /\ nops < MaxOps
    /\ nops' = nops + 1
    /\ LET keys_to_remove == TypeKeys(cache, data_type)
       IN /\ cache' = Without(cache, keys_to_remove)
          /\ stats' = Bump(stats, "invalidations", Cardinality(keys_to_remove))
          /\ last' = Call("invalidate_by_type", <<>>, data_type, now,
                          Cardinality(keys_to_remove))
          /\ hist' = Removed(hist, keys_to_remove)
    /\ UNCHANGED << now, pc, local >>
    /\ UNCHANGED << lock, frame, err, ghost, init_ttl_config, glob, client >>

\* mutant: the count is taken after the store was emptied
clear_count_after(c) == Cardinality((DOMAIN c) \ (DOMAIN c))

\* count = len(self._cache), taken before self._cache.clear()
clear_count(c) == Cardinality(DOMAIN c)

\* mutant: clear also resets the counters
clear_resets_stats(t) ==
    /\ pc[t] = "idle"
    /\ nops < MaxOps
    /\ nops' = nops + 1
    /\ cache' = << >>
    /\ stats' = [ hits |-> 0, misses |-> 0, evictions |-> 0,
                  invalidations |-> clear_count(cache) ]
    /\ last' = Call("clear", <<>>, <<>>, now, clear_count(cache))
    /\ hist' = Removed(hist, DOMAIN cache)
    /\ UNCHANGED << now, pc, local >>
    /\ UNCHANGED << lock, frame, err, ghost, init_ttl_config, glob, client >>

\* CacheManager.clear
clear(t) ==
    /\ pc[t] = "idle"
    /\ nops < MaxOps
    /\ nops' = nops + 1
    /\ LET count == clear_count(cache)
       IN /\ cache' = << >>
          /\ stats' = Bump(stats, "invalidations", count)
          /\ last' = Call("clear", <<>>, <<>>, now, count)
    /\ hist' = Removed(hist, DOMAIN cache)
    /\ UNCHANGED << now, pc, local >>
    /\ UNCHANGED << lock, frame, err, ghost, init_ttl_config, glob, client >>

\* CacheManager.cleanup_expired, before the lock: current_time = time.time()
cleanup_begin(t) ==
    /\ pc[t] = "idle"
    /\ nops < MaxOps
    /\ nops' = nops + 1
    /\ local' = [ local EXCEPT ![t] = [ NoLocal EXCEPT !.current_time = now ] ]
    /\ pc' = [ pc EXCEPT ![t] = "cleanup" ]
    /\ UNCHANGED << now, cache, stats, last, hist >>
    /\ UNCHANGED << lock, frame, err, ghost, init_ttl_config, glob, client >>

\* mutant: the creation time is compared
ExpiredKeys_by_age(c, current_time) == { key \in DOMAIN c : c[key].created_at <= current_time }

\* the keys cleanup_expired collects: entry.expires_at <= current_time
ExpiredKeys(c, current_time) == { key \in DOMAIN c : c[key].expires_at <= current_time }

\* CacheManager.cleanup_expired, under the lock
cleanup_sweep(t) ==
    /\ pc[t] = "cleanup"
    /\ LET keys_to_remove == ExpiredKeys(cache, local[t].current_time)
       IN /\ cache' = Without(cache, keys_to_remove)
          /\ stats' = Bump(stats, "evictions", Cardinality(keys_to_remove))
          /\ last' = Call("cleanup_expired", <<>>, local[t].current_time, now,
                          Cardinality(keys_to_remove))
          /\ hist' = Removed(hist, keys_to_remove)
    /\ pc' = [ pc EXCEPT ![t] = "idle" ]
    /\ local' = [ local EXCEPT ![t] = NoLocal ]
    /\ UNCHANGED << now, nops >>
    /\ UNCHANGED << lock, frame, err, ghost, init_ttl_config, glob, client >>

Next ==
    \/ Tick
    \/ \E t \in Threads, key \in Keys, data_type \in UsedTypes : get(t, key, data_type)
    \/ \E t \in Threads, key \in Keys, a \in SetArgs : set_begin(t, key, a[1], a[2], a[3])
    \/ \E t \in Threads : set_store(t)
    \/ \E t \in Threads, key \in Keys : invalidate(t, key)
    \/ \E t \in Threads, pattern \in Patterns : invalidate_by_pattern(t, pattern)
    \/ \E t \in Threads, data_type \in UsedTypes : invalidate_by_type(t, data_type)
    \/ \E t \in Threads : clear(t)
    \/ \E t \in Threads : cleanup_begin(t)
    \/ \E t \in Threads : cleanup_sweep(t)

Spec == Init /\ [][Next]_vars

\* ---------------------------------------------------------------- get_stats
\* hit_rate_percent is a float with two decimals; it is modelled as the
\* integer number of hundredths of a percent (33.33 is 3333).

\* mutant: the rate is truncated to two decimals
Round2_floor(hits, total_requests) == (hits * 10000) \div total_requests

\* round(hits / total_requests * 100, 2): the nearest hundredth, a tie going
\* to the even one
Round2(hits, total_requests) ==
    LET q == (hits * 10000) \div total_requests
        r == (hits * 10000) % total_requests
    IN IF 2 * r < total_requests THEN q
       ELSE IF 2 * r > total_requests THEN q + 1
       ELSE IF q % 2 = 0 THEN q ELSE q + 1

\* mutant: the division is not guarded
hit_rate_unguarded(total_requests) == total_requests >= 0

\* `if total_requests > 0`, the guard of the division
hit_rate_guard(total_requests) == total_requests > 0

\* the dictionary CacheManager.get_stats returns
get_stats_result(s, c) ==
    LET total_requests == s.hits + s.misses
        hit_rate == IF hit_rate_guard(total_requests) THEN Round2(s.hits, total_requests) ELSE 0
    IN [ hits |-> s.hits,
         misses |-> s.misses,
         hit_rate_percent |-> hit_rate,
         evictions |-> s.evictions,
         invalidations |-> s.invalidations,
         total_entries |-> Cardinality(DOMAIN c),
         total_requests |-> total_requests ]

\* CacheManager.get_stats: the whole body runs under the lock
get_stats(t) ==
    /\ pc[t] = "idle"
    /\ last' = Call("get_stats", <<>>, <<>>, now, get_stats_result(stats, cache))
    /\ UNCHANGED << now, cache, stats, pc, local, nops, hist >>
    /\ UNCHANGED << lock, frame, err, ghost, init_ttl_config, glob, client >>

\* A manager whose counters hits and misses have any values up to MaxCount
\* (each get adds one to one of them), the store being empty.
InitStats ==
    /\ now = 0
    /\ cache = << >>
    /\ \E h \in 0..MaxCount, m \in 0..MaxCount :
          stats = [ hits |-> h, misses |-> m, evictions |-> 0, invalidations |-> 0 ]
    /\ pc = [ t \in Threads |-> "idle" ]
    /\ local = [ t \in Threads |-> NoLocal ]
    /\ nops = 0
    /\ last = [ op |-> "init", key |-> <<>>, arg |-> <<>>, at |-> 0, ret |-> None,
                pre_cache |-> << >>, pre_stats |-> stats,
                pre_hist |-> [ k \in Keys |-> NoHist ] ]
    /\ hist = [ k \in Keys |-> NoHist ]
    /\ lock = "free"
    /\ frame = [ t \in Threads |-> NoFrame ]
    /\ err = NoErr
    /\ ghost = NoGhost
    /\ init_ttl_config = << >>
    /\ glob = NoGlob
    /\ client = NoClient

NextStats == \E t \in Threads : get_stats(t)

SpecStats == InitStats /\ [][NextStats]_vars

\* ---------------------------------------------------------------- statements
\* The same operations, one statement at a time.  `with self._lock` is
\* entered by a step that needs the lock to be free and takes it; the lock
\* is given back by the step that leaves the block (a return or an
\* exception).  `self._stats[c] += n` is a read followed by a write.  A
\* step ends before each write to the store or to a counter.

\* The set calls of the statement-level model, as << key, data, data_type,
\* ttl_override >>: each key is set to an entry that stays (no override, or
\* ttl_override 0 read at the same clock value) and to one that is expired
\* from the start.
LockCalls ==
    { << <<"a">>, "A", "player_data", <<>> >>,
      << <<"a">>, "B", "roster_data", <<-1>> >>,
      << <<"a", "b">>, "B", "roster_data", <<0>> >>,
      << <<"a", "b">>, "B", "roster_data", <<-1>> >> }
LockPatterns == { <<"b">> }
LockTypes == { "roster_data" }

\* the locals of a call that has just taken the lock
Enter(op, key, arg) ==
    [ NoFrame EXCEPT !.op = op, !.key = key, !.arg = arg,
                     !.pre_cache = cache, !.pre_stats = stats ]

\* the call of thread t ends with the exception exc; leaving the with block
\* gives the lock back
Raise(t, exc) ==
    /\ err' = IF err = NoErr THEN [ op |-> frame[t].op, exc |-> exc ] ELSE err
    /\ lock' = IF lock = t THEN "free" ELSE lock
    /\ pc' = [ pc EXCEPT ![t] = "idle" ]
    /\ frame' = [ frame EXCEPT ![t] = NoFrame ]

\* the record of a call that went through the lock statement by statement
Done(f, ret) ==
    [ op |-> f.op, key |-> f.key, arg |-> f.arg, at |-> now, ret |-> ret,
      pre_cache |-> f.pre_cache, pre_stats |-> f.pre_stats, pre_hist |-> hist,
      removed |-> f.removed, post_cache |-> cache, post_stats |-> stats,
      ghost |-> ghost ]

\* mutant: a hit renews the entry's expiration (sliding TTL)
lk_get_lookup_renewing(t, key, data_type) ==
    /\ pc[t] = "idle"
    /\ nops < MaxOps
    /\ lock = "free"
    /\ nops' = nops + 1
    /\ lock' = t
    /\ ghost' = [ ghost EXCEPT !.gets = @ + 1 ]
    /\ cache' = IF key \in DOMAIN cache /\ ~is_expired(cache[key], now)
                THEN [ cache EXCEPT ![key].expires_at =
                         now + ttl_config[cache[key].data_type] ]
                ELSE cache
    /\ IF key \notin DOMAIN cache
       THEN /\ frame' = [ frame EXCEPT ![t] =
                            [ Enter("get", key, <<>>) EXCEPT
                                !.ret = None,
                                !.incs = << << "misses", 1 >> >>,
                                !.tmp = stats.misses ] ]
            /\ pc' = [ pc EXCEPT ![t] = "inc_store" ]
       ELSE IF is_expired(cache[key], now)
       THEN /\ frame' = [ frame EXCEPT ![t] =
                            [ Enter("get", key, <<>>) EXCEPT !.entry = cache[key] ] ]
            /\ pc' = [ pc EXCEPT ![t] = "get_del" ]
       ELSE /\ frame' = [ frame EXCEPT ![t] =
                            [ Enter("get", key, <<>>) EXCEPT
                                !.entry = cache[key],
                                !.ret = cache[key].data,
                                !.incs = << << "hits", 1 >> >>,
                                !.tmp = stats.hits ] ]
            /\ pc' = [ pc EXCEPT ![t] = "inc_store" ]
    /\ UNCHANGED << now, stats, local, last, hist, err,
                    init_ttl_config, glob, client >>

\* get, lines 99-107 and 115-116: take the lock, look the key up, test the
\* expiry; a miss or a hit then reads its counter
lk_get_lookup(t, key, data_type) ==
    /\ pc[t] = "idle"
    /\ nops < MaxOps
    /\ lock = "free"
    /\ nops' = nops + 1
    /\ lock' = t
    /\ ghost' = [ ghost EXCEPT !.gets = @ + 1 ]
    /\ IF key \notin DOMAIN cache
       THEN /\ frame' = [ frame EXCEPT ![t] =
                            [ Enter("get", key, <<>>) EXCEPT
                                !.ret = None,
                                !.incs = << << "misses", 1 >> >>,
                                !.tmp = stats.misses ] ]
            /\ pc' = [ pc EXCEPT ![t] = "inc_store" ]
       ELSE IF is_expired(cache[key], now)
       THEN /\ frame' = [ frame EXCEPT ![t] =
                            [ Enter("get", key, <<>>) EXCEPT !.entry = cache[key] ] ]
            /\ pc' = [ pc EXCEPT ![t] = "get_del" ]
       ELSE /\ frame' = [ frame EXCEPT ![t] =
                            [ Enter("get", key, <<>>) EXCEPT
                                !.entry = cache[key],
                                !.ret = cache[key].data,
                                !.incs = << << "hits", 1 >> >>,
                                !.tmp = stats.hits ] ]
            /\ pc' = [ pc EXCEPT ![t] = "inc_store" ]
    /\ UNCHANGED << now, cache, stats, local, last, hist, err,
                    init_ttl_config, glob, client >>

\* mutant: the entry deleted on read is counted as a miss only
lk_get_del_uncounted(t) ==
    /\ pc[t] = "get_del"
    /\ LET key == frame[t].key
       IN IF key \notin DOMAIN cache
          THEN /\ Raise(t, "KeyError")
               /\ UNCHANGED << cache, ghost >>
          ELSE /\ cache' = Without(cache, {key})
               /\ ghost' = [ ghost EXCEPT
                               !.expired = @ + 1,
                               !.torn = IF cache[key] # frame[t].entry THEN "get" ELSE @ ]
               /\ frame' = [ frame EXCEPT ![t].ret = None,
                                          ![t].removed = {key},
                                          ![t].incs = << << "misses", 1 >> >>,
                                          ![t].tmp = stats.misses ]
               /\ pc' = [ pc EXCEPT ![t] = "inc_store" ]
               /\ UNCHANGED << lock, err >>
    /\ UNCHANGED << now, stats, local, nops, last, hist,
                    init_ttl_config, glob, client >>

\* get, lines 109-110: del self._cache[key], then the read of the counter
lk_get_del(t) ==
    /\ pc[t] = "get_del"
    /\ LET key == frame[t].key
       IN IF key \notin DOMAIN cache
          THEN /\ Raise(t, "KeyError")
               /\ UNCHANGED << cache, ghost >>
          ELSE /\ cache' = Without(cache, {key})
               /\ ghost' = [ ghost EXCEPT
                               !.expired = @ + 1,
                               !.torn = IF cache[key] # frame[t].entry THEN "get" ELSE @ ]
               /\ frame' = [ frame EXCEPT ![t].ret = None,
                                          ![t].removed = {key},
                                          ![t].incs = << << "evictions", 1 >>,
                                                         << "misses", 1 >> >>,
                                          ![t].tmp = stats.evictions ]
               /\ pc' = [ pc EXCEPT ![t] = "inc_store" ]
               /\ UNCHANGED << lock, err >>
    /\ UNCHANGED << now, stats, local, nops, last, hist,
                    init_ttl_config, glob, client >>

\* self._stats[c] += n, the write of the value read before plus n; then the
\* next statement up to the next write: the read of the next counter, the
\* next round of a deletion loop, or the return, which leaves the with block
\* and gives the lock back
lk_inc_store(t) ==
    /\ pc[t] = "inc_store"
    /\ LET inc == Head(frame[t].incs)
           rest == Tail(frame[t].incs)
       IN /\ stats' = [ stats EXCEPT ![inc[1]] = frame[t].tmp + inc[2] ]
          /\ IF rest # <<>>
             THEN /\ frame' = [ frame EXCEPT ![t].incs = rest,
                                             ![t].tmp = stats'[Head(rest)[1]] ]
                  /\ pc' = pc
                  /\ UNCHANGED << lock, last >>
             ELSE IF frame[t].after = "rm_loop"
             THEN /\ frame' = [ frame EXCEPT ![t].incs = rest ]
                  /\ pc' = [ pc EXCEPT ![t] = "rm_loop" ]
                  /\ UNCHANGED << lock, last >>
             ELSE /\ lock' = IF lock = t THEN "free" ELSE lock
                  /\ last' = [ Done(frame[t], frame[t].ret) EXCEPT !.post_stats = stats' ]
                  /\ pc' = [ pc EXCEPT ![t] = "idle" ]
                  /\ frame' = [ frame EXCEPT ![t] = NoFrame ]
    /\ UNCHANGED << now, cache, local, nops, hist, err, ghost,
                    init_ttl_config, glob, client >>

\* set, line 141: self._cache[key] = entry
lk_set_assign(t) ==
    /\ pc[t] = "set"
    /\ cache' = With(cache, local[t].key, local[t].entry)
    /\ ghost' = [ ghost EXCEPT !.added =
                    IF local[t].key \in DOMAIN cache THEN @ ELSE @ + 1 ]
    /\ last' = [ Done(Enter("set", local[t].key,
                            << local[t].entry.data, local[t].entry.data_type,
                               local[t].ttl >>), None)
                 EXCEPT !.at = local[t].current_time,
                        !.post_cache = cache',
                        !.ghost = ghost' ]
    /\ pc' = [ pc EXCEPT ![t] = "idle" ]
    /\ local' = [ local EXCEPT ![t] = NoLocal ]
    /\ UNCHANGED << now, stats, nops, hist, lock, frame, err,
                    init_ttl_config, glob, client >>

\* mutant: the entry is stored without taking the lock
lk_set_store_unlocked(t) == lk_set_assign(t)

\* set, lines 140-141: with self._lock: self._cache[key] = entry
lk_set_store(t) ==
    /\ lock = "free"
    /\ lk_set_assign(t)

\* invalidate, lines 155-156 and 161: take the lock, test the key; an absent
\* key returns False at once
lk_invalidate_check(t, key) ==
    /\ pc[t] = "idle"
    /\ nops < MaxOps
    /\ lock = "free"
    /\ nops' = nops + 1
    /\ IF key \in DOMAIN cache
       THEN /\ lock' = t
            /\ frame' = [ frame EXCEPT ![t] = Enter("invalidate", key, <<>>) ]
            /\ pc' = [ pc EXCEPT ![t] = "inv_del" ]
            /\ last' = last
       ELSE /\ last' = Done(Enter("invalidate", key, <<>>), FALSE)
            /\ UNCHANGED << lock, frame, pc >>
    /\ UNCHANGED << now, cache, stats, local, hist, err, ghost,
                    init_ttl_config, glob, client >>

\* invalidate, lines 157-158: del self._cache[key], then the read of the
\* counter
lk_invalidate_del(t) ==
    /\ pc[t] = "inv_del"
    /\ LET key == frame[t].key
       IN IF key \notin DOMAIN cache
          THEN /\ Raise(t, "KeyError")
               /\ UNCHANGED << cache, ghost >>
          ELSE /\ cache' = Without(cache, {key})
               /\ ghost' = [ ghost EXCEPT !.invalidated = @ + 1 ]
               /\ frame' = [ frame EXCEPT ![t].ret = TRUE,
                                          ![t].removed = {key},
                                          ![t].incs = << << "invalidations", 1 >> >>,
                                          ![t].tmp = stats.invalidations ]
               /\ pc' = [ pc EXCEPT ![t] = "inc_store" ]
               /\ UNCHANGED << lock, err >>
    /\ UNCHANGED << now, stats, local, nops, last, hist,
                    init_ttl_config, glob, client >>

\* the locals after the scan loop of invalidate_by_pattern, invalidate_by_type
\* and cleanup_expired has filled keys_to_remove
Scanned(op, arg, keys_to_remove) ==
    [ Enter(op, <<>>, arg) EXCEPT !.keys_to_remove = keys_to_remove,
                                  !.ret = Cardinality(keys_to_remove) ]

\* the scan of thread t has filled keys_to_remove: with no key to remove the
\* deletion loop is empty and the call returns the count 0; else the
\* deletion loop starts, the lock being held by `holder`
ScanStep(t, f, holder) ==
    IF f.keys_to_remove = {}
    THEN /\ last' = Done(f, f.ret)
         /\ pc' = [ pc EXCEPT ![t] = "idle" ]
         /\ frame' = [ frame EXCEPT ![t] = NoFrame ]
         /\ lock' = lock
    ELSE /\ lock' = holder
         /\ frame' = [ frame EXCEPT ![t] = f ]
         /\ pc' = [ pc EXCEPT ![t] = "rm_loop" ]
         /\ last' = last

\* mutant: the with block ends after the scan, the deletions run outside it
lk_pattern_scan_releases(t, pattern) ==
    /\ pc[t] = "idle"
    /\ nops < MaxOps
    /\ lock = "free"
    /\ nops' = nops + 1
    /\ ScanStep(t, Scanned("invalidate_by_pattern", pattern,
                           PatternKeys(cache, pattern)), "free")
    /\ UNCHANGED << now, cache, stats, local, hist, err, ghost,
                    init_ttl_config, glob, client >>

\* invalidate_by_pattern, lines 175-178: take the lock, collect the keys
lk_pattern_scan(t, pattern) ==
    /\ pc[t] = "idle"
    /\ nops < MaxOps
    /\ lock = "free"
    /\ nops' = nops + 1
    /\ ScanStep(t, Scanned("invalidate_by_pattern", pattern,
                           PatternKeys(cache, pattern)), t)
    /\ UNCHANGED << now, cache, stats, local, hist, err, ghost,
                    init_ttl_config, glob, client >>

\* invalidate_by_type, lines 201-204: take the lock, collect the keys
lk_type_scan(t, data_type) ==
    /\ pc[t] = "idle"
    /\ nops < MaxOps
    /\ lock = "free"
    /\ nops' = nops + 1
    /\ ScanStep(t, Scanned("invalidate_by_type", data_type,
                           TypeKeys(cache, data_type)), t)
    /\ UNCHANGED << now, cache, stats, local, hist, err, ghost,
                    init_ttl_config, glob, client >>

\* cleanup_expired, lines 240-243: take the lock, collect the keys; the
\* clock was read before (cleanup_begin)
lk_cleanup_scan(t) ==
    /\ pc[t] = "cleanup"
    /\ lock = "free"
    /\ ScanStep(t, Scanned("cleanup_expired", local[t].current_time,
                           ExpiredKeys(cache, local[t].current_time)), t)
    /\ local' = [ local EXCEPT ![t] = NoLocal ]
    /\ UNCHANGED << now, cache, stats, nops, hist, err, ghost,
                    init_ttl_config, glob, client >>

\* the deletion loops, lines 180-182, 206-208 and 245-247: del
\* self._cache[key] for the next key of keys_to_remove, then the read of
\* the counter
lk_rm_del(t) ==
    /\ pc[t] = "rm_loop"
    /\ \E key \in frame[t].keys_to_remove :
          IF key \notin DOMAIN cache
          THEN /\ Raise(t, "KeyError")
               /\ UNCHANGED << cache, ghost >>
          ELSE LET c == IF frame[t].op = "cleanup_expired"
                        THEN "evictions" ELSE "invalidations"
               IN
               /\ cache' = Without(cache, {key})
               /\ ghost' = [ ghost EXCEPT
                               !.expired =
                                   IF frame[t].op = "cleanup_expired" THEN @ + 1 ELSE @,
                               !.invalidated =
                                   IF frame[t].op = "cleanup_expired" THEN @ ELSE @ + 1,
                               !.torn =
                                   IF cache[key] # frame[t].pre_cache[key]
                                   THEN frame[t].op ELSE @ ]
               /\ frame' = [ frame EXCEPT
                               ![t].keys_to_remove = @ \ {key},
                               ![t].removed = @ \cup {key},
                               ![t].incs = << << c, 1 >> >>,
                               ![t].tmp = stats[c],
                               ![t].after =
                                   IF frame[t].keys_to_remove = {key}
                                   THEN "return" ELSE "rm_loop" ]
               /\ pc' = [ pc EXCEPT ![t] = "inc_store" ]
               /\ UNCHANGED << lock, err >>
    /\ UNCHANGED << now, stats, local, nops, last, hist,
                    init_ttl_config, glob, client >>

\* clear, lines 222-225: take the lock, count, empty the store, read the
\* counter
lk_clear_store(t) ==
    /\ pc[t] = "idle"
    /\ nops < MaxOps
    /\ lock = "free"
    /\ nops' = nops + 1
    /\ lock' = t
    /\ cache' = << >>
    /\ ghost' = [ ghost EXCEPT !.invalidated = @ + clear_count(cache) ]
    /\ frame' = [ frame EXCEPT ![t] =
                    [ Enter("clear", <<>>, <<>>) EXCEPT
                        !.ret = clear_count(cache),
                        !.removed = DOMAIN cache,
                        !.incs = << << "invalidations", clear_count(cache) >> >>,
                        !.tmp = stats.invalidations ] ]
    /\ pc' = [ pc EXCEPT ![t] = "inc_store" ]
    /\ UNCHANGED << now, stats, local, last, hist, err,
                    init_ttl_config, glob, client >>

\* mutant: the counters and the store are read without taking the lock
lk_get_stats_unlocked(t) ==
    /\ pc[t] = "idle"
    /\ last' = Done(Enter("get_stats", <<>>, <<>>), get_stats_result(stats, cache))
    /\ UNCHANGED << now, cache, stats, pc, local, nops, hist, lock, frame, err, ghost,
                    init_ttl_config, glob, client >>

\* get_stats, lines 261-273: take the lock, build the dict, give the lock back
lk_get_stats(t) ==
    /\ pc[t] = "idle"
    /\ lock = "free"
    /\ IF hit_rate_guard(stats.hits + stats.misses) /\ stats.hits + stats.misses = 0
       THEN /\ err' = IF err = NoErr
                      THEN [ op |-> "get_stats", exc |-> "ZeroDivisionError" ] ELSE err
            /\ last' = last
       ELSE /\ last' = Done(Enter("get_stats", <<>>, <<>>), get_stats_result(stats, cache))
            /\ err' = err
    /\ UNCHANGED << now, cache, stats, pc, local, nops, hist, lock, frame, ghost,
                    init_ttl_config, glob, client >>

Max(S) == CHOOSE x \in S : \A y \in S : y <= x
Min(S) == CHOOSE x \in S : \A y \in S : x <= y

\* get_cache_info, lines 283-289: the dictionary before the scan
NoInfo ==
    [ total_entries |-> 0, expired_entries |-> 0, entries_by_type |-> << >>,
      oldest_entry_age |-> 0, newest_entry_age |-> 0 ]

\* get_cache_info, lines 296-309, the loop over self._cache.values() for the
\* keys ks not yet visited: acc.info is the dictionary and acc.ages the
\* ages collected so far
RECURSIVE info_loop(_, _, _, _, _)
info_loop(c, ks, current_time, t_scan, acc) ==
    IF ks = {}
    THEN acc
    ELSE LET k == CHOOSE x \in ks : TRUE
             entry == c[k]
             age == current_time - entry.created_at
             type_name == entry.data_type
             by_type == acc.info.entries_by_type
             known == IF type_name \in DOMAIN by_type
                      THEN by_type
                      ELSE by_type @@ ( type_name :> [ count |-> 0, expired |-> 0 ] )
             counted == [ known EXCEPT ![type_name].count = @ + 1 ]
             info == IF is_expired(entry, t_scan)
                     THEN [ acc.info EXCEPT
                              !.expired_entries = @ + 1,
                              !.entries_by_type =
                                  [ counted EXCEPT ![type_name].expired = @ + 1 ] ]
                     ELSE [ acc.info EXCEPT !.entries_by_type = counted ]
         IN info_loop(c, ks \ {k}, current_time, t_scan,
                      [ info |-> info, ages |-> acc.ages \cup {age} ])

\* the dictionary CacheManager.get_cache_info returns, lines 291-316: the
\* ages are taken from current_time (read before the lock), is_expired
\* reads the clock during the scan (t_scan)
get_cache_info_result(c, current_time, t_scan) ==
    IF DOMAIN c = {}
    THEN NoInfo
    ELSE LET acc == info_loop(c, DOMAIN c, current_time, t_scan,
                              [ info |-> NoInfo, ages |-> {} ])
             info == [ acc.info EXCEPT !.total_entries = Cardinality(DOMAIN c) ]
         IN IF acc.ages # {}
            THEN [ info EXCEPT !.oldest_entry_age = Max(acc.ages),
                               !.newest_entry_age = Min(acc.ages) ]
            ELSE info

\* mutant: the expiry is judged at the clock value read before the lock
get_cache_info_stale(c, current_time, t_scan) ==
    get_cache_info_result(c, current_time, current_time)

\* get_cache_info as a whole, lines 282-316
get_cache_info(c, current_time, t_scan) == get_cache_info_result(c, current_time, t_scan)

\* get_cache_info, lines 282-289: current_time = time.time(), before the lock
lk_info_begin(t) ==
    /\ pc[t] = "idle"
    /\ nops < MaxOps
    /\ nops' = nops + 1
    /\ frame' = [ frame EXCEPT ![t] = [ NoFrame EXCEPT !.op = "get_cache_info", !.arg = now ] ]
    /\ pc' = [ pc EXCEPT ![t] = "info" ]
    /\ UNCHANGED << now, cache, stats, local, last, hist, lock, err, ghost,
                    init_ttl_config, glob, client >>

\* get_cache_info, lines 291-316: take the lock, scan the store, give it back
lk_info_scan(t) ==
    /\ pc[t] = "info"
    /\ lock = "free"
    /\ UNCHANGED << now, cache, stats, local, nops, hist, lock, err, ghost,
                    init_ttl_config, glob, client >>
    /\ last' = [ Done(Enter("get_cache_info", <<>>, frame[t].arg),
                       get_cache_info(cache, frame[t].arg, now))
                 EXCEPT !.post_cache = cache', !.post_stats = stats' ]
    /\ pc' = [ pc EXCEPT ![t] = "idle" ]
    /\ frame' = [ frame EXCEPT ![t] = NoFrame ]

NextLock ==
    \/ Tick
    \/ \E t \in Threads, key \in Keys, data_type \in LockTypes : lk_get_lookup(t, key, data_type)
    \/ \E t \in Threads : lk_get_del(t)
    \/ \E t \in Threads : lk_inc_store(t)
    \/ \E t \in Threads, a \in LockCalls : set_begin(t, a[1], a[2], a[3], a[4])
    \/ \E t \in Threads : lk_set_store(t)
    \/ \E t \in Threads, key \in Keys : lk_invalidate_check(t, key)
    \/ \E t \in Threads : lk_invalidate_del(t)
    \/ \E t \in Threads, pattern \in LockPatterns : lk_pattern_scan(t, pattern)
    \/ \E t \in Threads, data_type \in LockTypes : lk_type_scan(t, data_type)
    \/ \E t \in Threads : cleanup_begin(t)
    \/ \E t \in Threads : lk_cleanup_scan(t)
    \/ \E t \in Threads : lk_rm_del(t)
    \/ \E t \in Threads : lk_clear_store(t)
    \/ \E t \in Threads : lk_get_stats(t)
    \/ \E t \in Threads : lk_info_begin(t)
    \/ \E t \in Threads : lk_info_scan(t)

SpecLock == Init /\ [][NextLock]_vars

\* ---------------------------------------------------------------- __init__
\* Managers constructed with a ttl_config argument: none, one category
\* overridden, two categories overridden (one of them with 0).
CtorOverrides ==
    { << >>,
      ( "roster_data" :> 1 ),
      ( "player_data" :> 0 ) @@ ( "matchup_data" :> 300 ) }

\* The set calls made on these managers, as << key, data, data_type,
\* ttl_override >>: every category without ttl_override, and the overrides
\* 0 and 2.
CtorCalls ==
    { << <<"a">>, "A", "roster_data", <<>> >>,
      << <<"a">>, "A", "player_data", <<>> >>,
      << <<"a">>, "A", "trending_players", <<>> >>,
      << <<"a", "b">>, "A", "league_settings", <<>> >>,
      << <<"a", "b">>, "A", "matchup_data", <<>> >>,
      << <<"a", "b">>, "B", "roster_data", <<0>> >>,
      << <<"a">>, "B", "player_data", <<2>> >> }

\* CacheManager.__init__(ttl_config)
InitCtor ==
    /\ now = 0
    /\ cache = << >>
    /\ stats = [ hits |-> 0, misses |-> 0, evictions |-> 0, invalidations |-> 0 ]
    /\ pc = [ t \in Threads |-> "idle" ]
    /\ local = [ t \in Threads |-> NoLocal ]
    /\ nops = 0
    /\ last = [ op |-> "init", key |-> <<>>, arg |-> <<>>, at |-> 0, ret |-> None,
                pre_cache |-> << >>, pre_stats |-> stats, pre_hist |-> [ k \in Keys |-> NoHist ] ]
    /\ hist = [ k \in Keys |-> NoHist ]
    /\ lock = "free"
    /\ frame = [ t \in Threads |-> NoFrame ]
    /\ err = NoErr
    /\ ghost = NoGhost
    /\ init_ttl_config \in CtorOverrides
    /\ glob = NoGlob
    /\ client = NoClient

NextCtor ==
    \/ Tick
    \/ \E t \in Threads, a \in CtorCalls : set_begin(t, a[1], a[2], a[3], a[4])
    \/ \E t \in Threads : set_store(t)

SpecCtor == InitCtor /\ [][NextCtor]_vars

\* ---------------------------------------------------------------- get
\* Callers that set entries and get them under any category: the category
\* the entry was stored with, another one that is in use, and one no entry
\* is stored with.
GetTypes == UsedTypes \cup { "matchup_data" }

\* The arguments of their sets: an entry without override, one with
\* ttl_override 0 and one with a negative one.
GetSetArgs ==
    { << "A", "player_data", <<>> >>,
      << "B", "roster_data", <<0>> >>,
      << "B", "roster_data", <<-1>> >> }

NextGet ==
    \/ Tick
    \/ \E t \in Threads, key \in Keys, a \in GetSetArgs :
          set_begin(t, key, a[1], a[2], a[3])
    \/ \E t \in Threads : set_store(t)
    \/ \E t \in Threads, key \in Keys, data_type \in GetTypes : get_as(t, key, data_type)

SpecGet == Init /\ [][NextGet]_vars

\* ---------------------------------------------------------------- module
\* get_cache_manager, called from several threads, one statement at a
\* time, and set called through the references it returned.

\* mutant: test and construction are one step (as under a module lock)
gcm_test_locked(t) ==
    /\ glob.pc[t] = "idle"
    /\ glob.calls < MaxOps
    /\ glob' = IF glob.cache_manager = 0
               THEN [ glob EXCEPT !.calls = @ + 1,
                                  !.pc[t] = "return",
                                  !.stores = Append(@, {}),
                                  !.cache_manager = Len(glob.stores) + 1 ]
               ELSE [ glob EXCEPT !.calls = @ + 1, !.pc[t] = "return" ]
    /\ UNCHANGED << now, cache, stats, pc, local, nops, last, hist, lock, frame, err,
                    ghost, init_ttl_config, client >>

\* get_cache_manager, line 358: if _cache_manager is None
gcm_test(t) ==
    /\ glob.pc[t] = "idle"
    /\ glob.calls < MaxOps
    /\ glob' = [ glob EXCEPT !.calls = @ + 1,
                             !.pc[t] = IF glob.cache_manager = 0
                                       THEN "construct" ELSE "return" ]
    /\ UNCHANGED << now, cache, stats, pc, local, nops, last, hist, lock, frame, err,
                    ghost, init_ttl_config, client >>

\* get_cache_manager, line 359: _cache_manager = CacheManager()
gcm_construct(t) ==
    /\ glob.pc[t] = "construct"
    /\ glob' = [ glob EXCEPT !.stores = Append(@, {}),
                             !.cache_manager = Len(glob.stores) + 1,
                             !.pc[t] = "return" ]
    /\ UNCHANGED << now, cache, stats, pc, local, nops, last, hist, lock, frame, err,
                    ghost, init_ttl_config, client >>

\* get_cache_manager, line 360: return _cache_manager
gcm_return(t) ==
    /\ glob.pc[t] = "return"
    /\ glob' = [ glob EXCEPT !.got[t] = glob.cache_manager, !.pc[t] = "idle" ]
    /\ UNCHANGED << now, cache, stats, pc, local, nops, last, hist, lock, frame, err,
                    ghost, init_ttl_config, client >>

\* CacheManager.set(key, ...) on the instance the thread's call returned
gcm_set(t, key) ==
    /\ glob.pc[t] = "idle"
    /\ glob.got[t] # 0
    /\ key \notin glob.stores[glob.got[t]]
    /\ glob' = [ glob EXCEPT !.stores[glob.got[t]] = @ \cup {key} ]
    /\ UNCHANGED << now, cache, stats, pc, local, nops, last, hist, lock, frame, err,
                    ghost, init_ttl_config, client >>

NextModule ==
    \/ \E t \in Threads : gcm_test(t)
    \/ \E t \in Threads : gcm_construct(t)
    \/ \E t \in Threads : gcm_return(t)
    \/ \E t \in Threads, key \in Keys : gcm_set(t, key)

SpecModule == Init /\ [][NextModule]_vars

\* ---------------------------------------------------------------- client
\* SleeperClient: _make_request and _wait_for_rate_limit, run by coroutines
\* of one event loop. A coroutine runs alone from one await to the next,
\* so each action is the code between two awaits.

\* SleeperClient.__init__ defaults
max_retries == 3
rate_limit_delay == 1
max_rate_limit_delay == 60
\* _wait_for_rate_limit: the length of a window and the requests allowed in it
WindowSeconds == 60
WindowLimit == 60
\* _make_request: the cap of the exponential backoff
MaxBackoff == 30

\* time.time() when the first coroutine starts: the seconds since 1970,
\* far above 0.0 + rate_limit_delay
Epoch == 100

\* float() of a Retry-After header value: the numeric strings convert, an
\* HTTP-date does not (ValueError)
HttpDate == "Wed, 21 Oct 2026 07:28:00 GMT"
FloatOf == ( "1" :> 1 ) @@ ( "120" :> 120 )
RetryAfterHeaders == { "absent", "1", "120", HttpDate }

\* what awaiting self._client.request can give: an exception of httpx or a
\* response with a status code, a body that is JSON or not, and a
\* Retry-After header
Responses ==
    { [ exc |-> "TimeoutException", status |-> 0, json |-> FALSE, retry_after |-> "absent" ],
      [ exc |-> "RequestError", status |-> 0, json |-> FALSE, retry_after |-> "absent" ],
      [ exc |-> "none", status |-> 200, json |-> TRUE, retry_after |-> "absent" ],
      [ exc |-> "none", status |-> 200, json |-> FALSE, retry_after |-> "absent" ],
      [ exc |-> "none", status |-> 304, json |-> FALSE, retry_after |-> "absent" ],
      [ exc |-> "none", status |-> 404, json |-> TRUE, retry_after |-> "absent" ],
      [ exc |-> "none", status |-> 503, json |-> FALSE, retry_after |-> "absent" ] }
    \cup { [ exc |-> "none", status |-> 429, json |-> FALSE, retry_after |-> h ] :
             h \in RetryAfterHeaders }

\* a client that has sent n requests one second apart, the last one now:
\* the window began n - 1 seconds ago
UsedClient(n) ==
    [ NoClient EXCEPT !.last_request_time = Epoch,
                      !.request_count = n,
                      !.rate_limit_reset_time = Epoch - (n - 1) + WindowSeconds,
                      !.window = n,
                      !.sent = << Epoch >> ]

InitClient ==
    /\ now = Epoch
    /\ cache = << >>
    /\ stats = [ hits |-> 0, misses |-> 0, evictions |-> 0, invalidations |-> 0 ]
    /\ pc = [ t \in Threads |-> "idle" ]
    /\ local = [ t \in Threads |-> NoLocal ]
    /\ nops = 0
    /\ last = [ op |-> "init", key |-> <<>>, arg |-> <<>>, at |-> 0, ret |-> None,
                pre_cache |-> << >>, pre_stats |-> stats, pre_hist |-> [ k \in Keys |-> NoHist ] ]
    /\ hist = [ k \in Keys |-> NoHist ]
    /\ lock = "free"
    /\ frame = [ t \in Threads |-> NoFrame ]
    /\ err = NoErr
    /\ ghost = NoGhost
    /\ init_ttl_config = << >>
    /\ glob = NoGlob
    /\ client \in { NoClient, UsedClient(1), UsedClient(WindowLimit - 1), UsedClient(WindowLimit) }

\* the times at which a sleeping coroutine is due
Wakes == { client.co[c].wake : c \in { c \in Coroutines : client.co[c].pc \in { "window_sleep", "delay_sleep", "backoff" } } }

\* time passes: by a second while a response is awaited, or up to the time
\* a sleeper is due
ClientTick ==
    /\ \E t \in { w \in Wakes : w > now } \cup { u \in { now + 1 } : u <= Epoch + MaxTime } :
          now' = t
    /\ UNCHANGED << cache, stats, pc, local, nops, last, hist, lock, frame, err,
                    ghost, init_ttl_config, glob, client >>

\* _wait_for_rate_limit, lines 132-133, and the request is sent
wfrl_leave(cl, c, t) ==
    [ cl EXCEPT !.last_request_time = t,
                !.request_count = @ + 1,
                !.window = @ + 1,
                !.sent = IF @ = << >> THEN << t >> ELSE << @[Len(@)], t >>,
                !.co[c].attempts = @ + 1,
                !.co[c].current_time = 0,
                !.co[c].wake = 0,
                !.co[c].pc = "request" ]

\* _wait_for_rate_limit, lines 127-133: the minimum delay, computed from the
\* current_time read at line 110
wfrl_delay(cl, c, t) ==
    LET time_since_last == cl.co[c].current_time - cl.last_request_time
    IN  IF time_since_last < rate_limit_delay
        THEN [ cl EXCEPT !.co[c].pc = "delay_sleep",
                         !.co[c].wake = t + (rate_limit_delay - time_since_last) ]
        ELSE wfrl_leave(cl, c, t)

\* _wait_for_rate_limit, lines 110-120: the window
wfrl_window(cl, c, t) ==
    LET read == [ cl EXCEPT !.co[c].current_time = t ]
        reset == IF t >= cl.rate_limit_reset_time
                 THEN [ read EXCEPT !.request_count = 0,
                                    !.window = 0,
                                    !.rate_limit_reset_time = t + WindowSeconds ]
                 ELSE read
        wait_time == reset.rate_limit_reset_time - t
    IN  IF reset.request_count >= WindowLimit /\ wait_time > 0
        THEN [ reset EXCEPT !.co[c].pc = "window_sleep", !.co[c].wake = t + wait_time ]
        ELSE wfrl_delay(reset, c, t)

\* _make_request, lines 158-160: a call begins
mr_call(c) ==
    /\ client.co[c].pc = "idle"
    /\ client.calls < MaxOps
    /\ client' = [ client EXCEPT !.calls = @ + 1,
                                 !.co[c] = [ NoCo EXCEPT !.pc = "loop" ] ]
    /\ UNCHANGED << now, cache, stats, pc, local, nops, last, hist, lock, frame, err,
                    ghost, init_ttl_config, glob >>

\* _make_request, lines 162-164: the loop test and _wait_for_rate_limit up
\* to its first await
mr_attempt(c) ==
    /\ client.co[c].pc = "loop"
    /\ client' = IF client.co[c].retry_count <= max_retries
                 THEN wfrl_window(client, c, now)
                 ELSE [ client EXCEPT !.co[c].pc = "idle",
                                      !.co[c].result = "SleeperAPIError" ]
    /\ UNCHANGED << now, cache, stats, pc, local, nops, last, hist, lock, frame, err,
                    ghost, init_ttl_config, glob >>

\* _wait_for_rate_limit, lines 122-133: after the sleep to the end of
\* the window
wfrl_window_wake(c) ==
    /\ client.co[c].pc = "window_sleep"
    /\ now >= client.co[c].wake
    /\ client' = wfrl_delay([ client EXCEPT !.request_count = 0,
                                            !.window = 0,
                                            !.rate_limit_reset_time = now + WindowSeconds ],
                            c, now)
    /\ UNCHANGED << now, cache, stats, pc, local, nops, last, hist, lock, frame, err,
                    ghost, init_ttl_config, glob >>

\* _wait_for_rate_limit, lines 130-133: after the sleep for the minimum delay
wfrl_delay_wake(c) ==
    /\ client.co[c].pc = "delay_sleep"
    /\ now >= client.co[c].wake
    /\ client' = wfrl_leave(client, c, now)
    /\ UNCHANGED << now, cache, stats, pc, local, nops, last, hist, lock, frame, err,
                    ghost, init_ttl_config, glob >>

\* the call ends: by return response.json() or by an exception
mr_end(cl, c, how) ==
    [ cl EXCEPT !.co[c].pc = "idle", !.co[c].result = how ]

\* _make_request, lines 186-190, 212-217, 229-234, 240-245: sleep, then
\* retry, or give up with the exception of the branch
mr_retry(cl, c, t, what, delay, exception) ==
    IF cl.co[c].retry_count < max_retries
    THEN [ cl EXCEPT !.co[c].pc = "backoff",
                     !.co[c].wake = t + delay,
                     !.co[c].retried_on = what ]
    ELSE mr_end(cl, c, exception)

\* min(2 ** retry_count, 30)
Backoff(retry_count) == IF 2 ^ retry_count < MaxBackoff THEN 2 ^ retry_count ELSE MaxBackoff

\* mutant: a Retry-After that is no number counts as absent
retry_after_lenient(cl, c, t, header) ==
    LET retry_after == IF header \in DOMAIN FloatOf THEN FloatOf[header] ELSE 60
    IN  mr_retry(cl, c, t, "429",
                 IF retry_after < max_rate_limit_delay THEN retry_after ELSE max_rate_limit_delay,
                 "RateLimitError")

\* _make_request, lines 183-196: float(response.headers.get("Retry-After", 60))
retry_after_429(cl, c, t, header) ==
    IF header # "absent" /\ header \notin DOMAIN FloatOf
    THEN mr_end(cl, c, "ValueError")
    ELSE LET retry_after == IF header = "absent" THEN 60 ELSE FloatOf[header]
         IN  mr_retry(cl, c, t, "429",
                      IF retry_after < max_rate_limit_delay THEN retry_after ELSE max_rate_limit_delay,
                      "RateLimitError")

\* _make_request, lines 167-247: the response, or the exception, of the
\* request
mr_response(c, r) ==
    /\ client.co[c].pc = "request"
    /\ client' =
          CASE r.exc # "none" ->
                  mr_retry(client, c, now, r.exc, Backoff(client.co[c].retry_count), "SleeperAPIError")
            [] r.exc = "none" /\ r.status = 200 ->
                  mr_end(client, c, IF r.json THEN "json" ELSE "SleeperAPIError")
            [] r.exc = "none" /\ r.status = 429 ->
                  retry_after_429(client, c, now, r.retry_after)
            [] r.exc = "none" /\ r.status # 429 /\ 400 <= r.status /\ r.status < 500 ->
                  mr_end(client, c, "SleeperAPIError")
            [] r.exc = "none" /\ r.status >= 500 ->
                  mr_retry(client, c, now, "5xx", Backoff(client.co[c].retry_count), "SleeperAPIError")
            [] OTHER ->
                  mr_end(client, c, "SleeperAPIError")
    /\ UNCHANGED << now, cache, stats, pc, local, nops, last, hist, lock, frame, err,
                    ghost, init_ttl_config, glob >>

\* _make_request, lines 189-190, 216-217, 233-234, 244-245: after the sleep,
\* retry_count += 1; continue
mr_backoff_wake(c) ==
    /\ client.co[c].pc = "backoff"
    /\ now >= client.co[c].wake
    /\ client' = [ client EXCEPT !.co[c].retry_count = @ + 1,
                                 !.co[c].wake = 0,
                                 !.co[c].pc = "loop" ]
    /\ UNCHANGED << now, cache, stats, pc, local, nops, last, hist, lock, frame, err,
                    ghost, init_ttl_config, glob >>

\* one coroutine calls _make_request, one call after the other, and the
\* server answers in every way
NextClient ==
    \/ ClientTick
    \/ mr_call("c1")
    \/ mr_attempt("c1")
    \/ wfrl_window_wake("c1")
    \/ wfrl_delay_wake("c1")
    \/ \E r \in Responses : mr_response("c1", r)
    \/ mr_backoff_wake("c1")

SpecClient == InitClient /\ [][NextClient]_vars

\* the answers of a server that is up or briefly down
GatherResponses == { r \in Responses : r.status \in { 200, 503 } /\ r.json = (r.status = 200) }

\* asyncio.gather of two requests on one client: each coroutine makes one
\* call of _make_request, the two run interleaved at their awaits
NextGather ==
    \/ ClientTick
    \/ \E c \in Coroutines : client.co[c] = NoCo /\ mr_call(c)
    \/ \E c \in Coroutines : mr_attempt(c)
    \/ \E c \in Coroutines : wfrl_window_wake(c)
    \/ \E c \in Coroutines : wfrl_delay_wake(c)
    \/ \E c \in Coroutines, r \in GatherResponses : mr_response(c, r)
    \/ \E c \in Coroutines : mr_backoff_wake(c)

SpecGather == InitClient /\ [][NextGather]_vars

\* ---------------------------------------------------------------- properties
\* `last` describes the call that last went through the lock: its name, its
\* arguments, the clock value `at` (for set: the clock value the call read),
\* its result, and the store, counters and per-key history it found.  `hist`
\* tells, per key, what last happened to the key: the last completed set
\* (with its arguments, and whether a get followed), an invalidate(key), or
\* a removal by another call.

\* the counters are the found ones plus the given increments
StatsDelta(h, m, e, i) ==
    stats = [ hits |-> last.pre_stats.hits + h,
              misses |-> last.pre_stats.misses + m,
              evictions |-> last.pre_stats.evictions + e,
              invalidations |-> last.pre_stats.invalidations + i ]

\* the store is the found one without the keys ks, nothing else changed
StoreMinus(ks) ==
    /\ DOMAIN cache = (DOMAIN last.pre_cache) \ ks
    /\ \A k \in DOMAIN cache : cache[k] = last.pre_cache[k]

\* the history of the key of the last call, as the call found it
KeyHist == last.pre_hist[last.key]

\* C1: a get that follows a set made without ttl_override on the same key,
\* before the category's TTL has elapsed and with no set, invalidation, clear
\* or cleanup of the key in between, returns the payload that was set and
\* adds one hit, no miss and no eviction.
C1_GetAfterSetHits ==
    ( /\ last.op = "get"
      /\ KeyHist.kind = "set"
      /\ KeyHist.ttl = <<>>
      /\ last.at - KeyHist.at < ttl_config[KeyHist.data_type] )
    => /\ last.ret = KeyHist.data
       /\ stats.hits = last.pre_stats.hits + 1
       /\ stats.misses = last.pre_stats.misses
       /\ stats.evictions = last.pre_stats.evictions

\* a get at a later clock value than the set returned the payload "A"
C1_Witness ==
    /\ last.op = "get"
    /\ KeyHist.kind = "set"
    /\ KeyHist.ttl = <<>>
    /\ last.at > KeyHist.at
    /\ last.ret = "A"
    /\ stats.hits = last.pre_stats.hits + 1

\* C2: a get on a key that is not in the store returns absent, adds exactly
\* one miss and changes neither the other counters nor the store.
C2_GetAbsentMisses ==
    ( last.op = "get" /\ last.key \notin DOMAIN last.pre_cache )
    => /\ last.ret = None
       /\ StatsDelta(0, 1, 0, 0)
       /\ cache = last.pre_cache

\* a get on a key that had been stored and removed, other keys being stored
C2_Witness ==
    /\ last.op = "get"
    /\ last.key \notin DOMAIN last.pre_cache
    /\ KeyHist.kind \in { "removed", "invalidated" }
    /\ last.pre_cache # << >>
    /\ last.ret = None

\* C3: a get on a key whose entry's expiration time has passed returns
\* absent, removes that entry and no other, and adds one eviction and one
\* miss and no hit.
C3_GetExpiredEvicts ==
    ( /\ last.op = "get"
      /\ last.key \in DOMAIN last.pre_cache
      /\ last.at > last.pre_cache[last.key].expires_at )
    => /\ last.ret = None
       /\ StoreMinus({ last.key })
       /\ StatsDelta(0, 1, 1, 0)

\* a get found an entry with payload "B" that expired while time passed
C3_Witness ==
    /\ last.op = "get"
    /\ last.key \in DOMAIN last.pre_cache
    /\ last.pre_cache[last.key].data = "B"
    /\ last.pre_cache[last.key].expires_at >= last.pre_cache[last.key].created_at
    /\ last.at > last.pre_cache[last.key].expires_at
    /\ last.key \notin DOMAIN cache


\* C4: after set(key, v, cat, ttl_override=0), with no other set,
\* invalidation, clear or cleanup of the key since, every get of the key
\* returns absent, also at the clock value of the set; the first such get
\* adds one eviction and one miss, every later one a miss only.
C4_ZeroTtlNeverRead ==
    ( /\ last.op = "get"
      /\ KeyHist.kind = "set"
      /\ KeyHist.ttl = <<0>> )
    => /\ last.ret = None
       /\ IF KeyHist.gets = 0 THEN StatsDelta(0, 1, 1, 0) ELSE StatsDelta(0, 1, 0, 0)

\* what a set on a key stores: all four fields come from the call
NewEntry ==
    [ data |-> last.arg[1],
      data_type |-> last.arg[2],
      created_at |-> last.at,
      expires_at |-> last.at + (IF last.arg[3] # <<>> THEN last.arg[3][1]
                                                     ELSE ttl_config[last.arg[2]]) ]

\* C5: a set on a key that has an entry leaves under the key an entry whose
\* payload, category, creation time and expiration are those of the new call,
\* does not change the number of entries, and the next get on the key, made
\* within the new entry's TTL, returns the new payload.
C5_SetReplaces ==
    /\ ( last.op = "set" /\ last.key \in DOMAIN last.pre_cache )
       => /\ last.key \in DOMAIN cache
          /\ cache[last.key] = NewEntry
          /\ Cardinality(DOMAIN cache) = Cardinality(DOMAIN last.pre_cache)
    /\ ( /\ last.op = "get"
         /\ KeyHist.kind = "set"
         /\ KeyHist.overwrote
         /\ KeyHist.gets = 0
         /\ last.at - KeyHist.at <
              (IF KeyHist.ttl # <<>> THEN KeyHist.ttl[1] ELSE ttl_config[KeyHist.data_type]) )
       => last.ret = KeyHist.data

\* a set replaced an entry that differed in payload, category, creation time
\* and expiration, another key being stored too
C5_Witness ==
    /\ last.op = "set"
    /\ last.key \in DOMAIN last.pre_cache
    /\ last.pre_cache[last.key].data # last.arg[1]
    /\ last.pre_cache[last.key].data_type # last.arg[2]
    /\ last.pre_cache[last.key].created_at # last.at
    /\ last.pre_cache[last.key].expires_at # cache[last.key].expires_at
    /\ Cardinality(DOMAIN cache) = 2

\* the next get after a replacing set returned the new payload
C5_WitnessGet ==
    /\ last.op = "get"
    /\ KeyHist.kind = "set"
    /\ KeyHist.overwrote
    /\ KeyHist.gets = 0
    /\ last.ret = "A"

\* C6: invalidate(key) on a stored key returns true, removes that key and no
\* other and adds one invalidation; on a key that is not stored it returns
\* false and changes neither the store nor a counter; the next get on an
\* invalidated key is a plain miss.
C6_Invalidate ==
    /\ ( last.op = "invalidate" /\ last.key \in DOMAIN last.pre_cache )
       => /\ last.ret = TRUE
          /\ StoreMinus({ last.key })
          /\ StatsDelta(0, 0, 0, 1)
    /\ ( last.op = "invalidate" /\ last.key \notin DOMAIN last.pre_cache )
       => /\ last.ret = FALSE
          /\ cache = last.pre_cache
          /\ stats = last.pre_stats
    /\ ( last.op = "get" /\ KeyHist.kind = "invalidated" )
       => /\ last.ret = None
          /\ StatsDelta(0, 1, 0, 0)

\* an invalidate removed one of two stored keys
C6_Witness ==
    /\ last.op = "invalidate"
    /\ last.ret = TRUE
    /\ Cardinality(DOMAIN last.pre_cache) = 2
    /\ Cardinality(DOMAIN cache) = 1

\* an invalidate found its key absent, another key being stored
C6_WitnessAbsent ==
    /\ last.op = "invalidate"
    /\ last.ret = FALSE
    /\ last.pre_cache # << >>

\* p is a literal substring of k: some contiguous slice of k equals p
Substring(p, k) ==
    \E i \in 0..Len(k) : \E j \in i..Len(k) : SubSeq(k, i + 1, j) = p

\* C7: invalidate_by_pattern(s) removes exactly the stored keys that contain
\* s as a literal substring, expired or not, returns their number and adds
\* that number to invalidations and nothing to the other counters.
C7_InvalidateByPattern ==
    last.op = "invalidate_by_pattern"
    => LET gone == { k \in DOMAIN last.pre_cache : Substring(last.arg, k) }
       IN /\ StoreMinus(gone)
          /\ last.ret = Cardinality(gone)
          /\ StatsDelta(0, 0, 0, Cardinality(gone))

\* a non-empty pattern removed an expired key and kept a key without it
C7_Witness ==
    /\ last.op = "invalidate_by_pattern"
    /\ last.arg # <<>>
    /\ last.ret = 1
    /\ Cardinality(DOMAIN cache) = 1
    /\ \E k \in (DOMAIN last.pre_cache) \ (DOMAIN cache) :
          last.at > last.pre_cache[k].expires_at

\* C8: invalidate_by_type(category) removes exactly the entries whose key
\* was last set with that category, returns their number and adds that
\* number to invalidations.
C8_InvalidateByType ==
    last.op = "invalidate_by_type"
    => LET gone == { k \in DOMAIN last.pre_cache : last.pre_hist[k].data_type = last.arg }
       IN /\ \A k \in DOMAIN last.pre_cache : last.pre_hist[k].kind = "set"
          /\ StoreMinus(gone)
          /\ last.ret = Cardinality(gone)
          /\ stats.invalidations = last.pre_stats.invalidations + last.ret

\* of two stored keys the one of the given category was removed and the one
\* of the other category was kept
C8_Witness ==
    /\ last.op = "invalidate_by_type"
    /\ last.ret = 1
    /\ Cardinality(DOMAIN cache) = 1
    /\ \A k \in DOMAIN cache : cache[k].data_type # last.arg

\* a key set twice was removed under the category of its second set
C8_WitnessSecondSet ==
    /\ last.op = "invalidate_by_type"
    /\ last.ret = 1
    /\ \E k \in (DOMAIN last.pre_cache) \ (DOMAIN cache) : last.pre_hist[k].overwrote

\* C9: clear() leaves the store empty, returns the number of entries that
\* were stored immediately before, and adds that number to invalidations.
C9_Clear ==
    last.op = "clear"
    => /\ cache = << >>
       /\ Cardinality(DOMAIN cache) = 0
       /\ last.ret = Cardinality(DOMAIN last.pre_cache)
       /\ stats.invalidations = last.pre_stats.invalidations + last.ret

\* a clear removed two entries
C9_Witness ==
    /\ last.op = "clear"
    /\ last.ret = 2
    /\ cache = << >>

\* C10: cleanup_expired() removes only entries whose expiration is at or
\* before the time of the sweep, leaves every entry that expires later as it
\* was, and returns the number by which evictions grew - also when set and
\* get of other callers ran after cleanup_expired read the clock.
C10_CleanupExpired ==
    last.op = "cleanup_expired"
    => LET gone == (DOMAIN last.pre_cache) \ (DOMAIN cache)
       IN /\ StoreMinus(gone)
          /\ \A k \in gone : last.pre_cache[k].expires_at <= last.at
          /\ \A k \in DOMAIN last.pre_cache :
                last.pre_cache[k].expires_at > last.at => k \in DOMAIN cache
          /\ last.ret = stats.evictions - last.pre_stats.evictions
          /\ last.ret = Cardinality(gone)
          /\ StatsDelta(0, 0, last.ret, 0)

\* a sweep that had read the clock before a concurrent set stored an entry
\* removed an expired entry and kept the entry set in between
C10_Witness ==
    /\ last.op = "cleanup_expired"
    /\ last.arg < last.at
    /\ last.ret >= 1
    /\ \E k \in DOMAIN cache : cache[k].created_at > last.arg

\* C11: get_stats reports total_requests = hits + misses and a
\* hit_rate_percent that is 0 when total_requests is 0 and otherwise is
\* hits / (hits + misses) * 100 rounded to the nearest hundredth, between
\* 0 and 100 (rates are in hundredths of a percent).
C11_HitRate ==
    last.op = "get_stats"
    => /\ last.ret.hits = stats.hits
       /\ last.ret.misses = stats.misses
       /\ last.ret.total_requests = stats.hits + stats.misses
       /\ last.ret.total_requests = 0 => last.ret.hit_rate_percent = 0
       /\ last.ret.total_requests > 0 =>
             LET d == last.ret.hit_rate_percent * (stats.hits + stats.misses)
                        - stats.hits * 10000
             IN /\ 2 * d <= stats.hits + stats.misses
                /\ 2 * (0 - d) <= stats.hits + stats.misses
       /\ last.ret.hit_rate_percent >= 0
       /\ last.ret.hit_rate_percent <= 10000

\* get_stats reported 66.67 percent for 2 hits in 3 requests
C11_Witness ==
    /\ last.op = "get_stats"
    /\ stats.hits = 2
    /\ stats.misses = 1
    /\ last.ret.hit_rate_percent = 6667

\* get_stats reported 0 percent with no request made
C11_WitnessNoRequest ==
    /\ last.op = "get_stats"
    /\ last.ret.total_requests = 0
    /\ last.ret.hit_rate_percent = 0

\* C12: no step of any operation decreases or resets hits, misses,
\* evictions or invalidations.
C12_CountersNeverDecrease ==
    [][ /\ stats'.hits >= stats.hits
        /\ stats'.misses >= stats.misses
        /\ stats'.evictions >= stats.evictions
        /\ stats'.invalidations >= stats.invalidations ]_vars

\* a clear left a hit and an eviction counted before it in place
C12_Witness ==
    /\ last.op = "clear"
    /\ last.pre_stats.hits + last.pre_stats.evictions >= 1
    /\ stats.hits = last.pre_stats.hits
    /\ stats.evictions = last.pre_stats.evictions
    /\ stats.invalidations >= 1

\* C13: get's lookup, expiry check, delete and classification are one step
\* for every other caller: while a get stands between the expiry check and
\* the delete, the key still holds the entry the get found, so the get
\* deletes that entry and no other and never raises; a completed get found
\* the store and the counters it changed untouched by others.
C13_GetAtomic ==
    /\ ghost.torn # "get"
    /\ err.op # "get"
    /\ \A t \in Threads :
          pc[t] = "get_del"
          => /\ frame[t].key \in DOMAIN cache
             /\ cache[frame[t].key] = frame[t].entry
             /\ cache = frame[t].pre_cache
             /\ stats = frame[t].pre_stats
    /\ last.op = "get"
       => /\ last.post_cache = Without(last.pre_cache, last.removed)
          /\ last.post_stats.hits + last.post_stats.misses
                = last.pre_stats.hits + last.pre_stats.misses + 1
          /\ last.post_stats.evictions
                = last.pre_stats.evictions + Cardinality(last.removed)

\* a get stands between its expiry check and its delete while another
\* caller has a set of the same key under way
C13_Witness ==
    \E t \in Threads, u \in Threads :
       /\ t # u
       /\ pc[t] = "get_del"
       /\ pc[u] = "set"
       /\ local[u].key = frame[t].key

\* a get has deleted the expired entry it found while a set of the same key
\* was waiting, and returned absent
C13_WitnessDone ==
    /\ last.op = "get"
    /\ last.removed = { last.key }
    /\ last.ret = None
    /\ \E u \in Threads : pc[u] = "set" /\ local[u].key = last.key

\* the counters s and the number n of stored entries account for every
\* change the calls counted in g made to the store
Accounted(s, n, g) ==
    /\ s.hits + s.misses = g.gets
    /\ s.evictions = g.expired
    /\ s.invalidations = g.invalidated
    /\ n = g.added - g.expired - g.invalidated

\* C14: the counters change together with the store: what get_stats
\* returns accounts for every get that was answered and every entry that
\* was deleted, never for a deletion without its increment or an increment
\* without its deletion; whenever no call is inside the lock the counters
\* account for all calls, so no increment is lost.
C14_StatsAtomic ==
    /\ last.op = "get_stats"
       => Accounted(last.ret, last.ret.total_entries, last.ghost)
    /\ lock = "free"
       => Accounted(stats, Cardinality(DOMAIN cache), ghost)

\* get_stats returned one eviction and one miss of a get on an expired
\* entry while another caller had a set under way
C14_Witness ==
    /\ last.op = "get_stats"
    /\ last.ret.evictions = 1
    /\ last.ret.misses = 1
    /\ last.ret.total_entries = 0
    /\ \E u \in Threads : pc[u] = "set"

\* get_stats returned the invalidation of an entry by invalidate_by_pattern
C14_WitnessPattern ==
    /\ last.op = "get_stats"
    /\ last.ret.invalidations = 1
    /\ last.ghost.added = 1

\* the calls that collect keys_to_remove and then delete them
Sweeps == { "invalidate_by_pattern", "invalidate_by_type", "cleanup_expired" }

\* the keys the sweep `op` with argument `arg` matches in the store c
Matching(op, arg, c) ==
    IF op = "invalidate_by_pattern" THEN PatternKeys(c, arg)
    ELSE IF op = "invalidate_by_type" THEN TypeKeys(c, arg)
    ELSE ExpiredKeys(c, arg)

\* C15: invalidate_by_pattern, invalidate_by_type and cleanup_expired
\* snapshot and delete in one step for every other caller: while the
\* deletion loop runs each key still to be deleted holds the entry the scan
\* saw, no deletion raises, and the call returns the number of entries it
\* removed, which are the matching keys of the store it found and no other.
C15_SweepAtomic ==
    /\ ghost.torn \notin Sweeps
    /\ err.op \notin Sweeps
    /\ \A t \in Threads :
          pc[t] = "rm_loop"
          => \A k \in frame[t].keys_to_remove :
                k \in DOMAIN cache /\ cache[k] = frame[t].pre_cache[k]
    /\ last.op \in Sweeps
       => /\ last.removed = Matching(last.op, last.arg, last.pre_cache)
          /\ last.post_cache = Without(last.pre_cache, last.removed)
          /\ last.ret = Cardinality(last.removed)
          /\ last.ret = Cardinality(DOMAIN last.pre_cache)
                          - Cardinality(DOMAIN last.post_cache)

\* invalidate_by_pattern stands in its deletion loop while another caller
\* has a set of a matching key under way
C15_Witness ==
    \E t \in Threads, u \in Threads :
       /\ pc[t] = "rm_loop"
       /\ frame[t].op = "invalidate_by_pattern"
       /\ pc[u] = "set"
       /\ local[u].key \in frame[t].keys_to_remove

\* cleanup_expired removed one entry and kept another, and returned 1
C15_WitnessCleanup ==
    /\ last.op = "cleanup_expired"
    /\ last.ret = 1
    /\ Cardinality(DOMAIN last.post_cache) = 1

\* the TTL the set recorded in the history h ran with
HistTtl(h) == IF h.ttl # <<>> THEN h.ttl[1] ELSE ttl_config[h.data_type]

\* C16: once a set of a key has returned, every get of the key that starts
\* afterwards returns the payload of that set, whatever the other callers
\* do meanwhile, until the key is written again, removed, or its TTL has
\* elapsed; a set another caller has begun but not finished does not count.
C16_SetVisible ==
    ( /\ last.op = "get"
      /\ KeyHist.kind = "set"
      /\ last.at - KeyHist.at < HistTtl(KeyHist) )
    => last.ret = KeyHist.data

\* a get returned the payload "A" of the finished set while another caller
\* had begun, and not finished, a set of another payload on the same key
C16_Witness ==
    /\ last.op = "get"
    /\ KeyHist.kind = "set"
    /\ last.ret = "A"
    /\ \E u \in Threads :
          /\ pc[u] = "set"
          /\ local[u].key = last.key
          /\ local[u].entry.data # "A"

\* the second get after a set returned the payload again
C16_WitnessSecondGet ==
    /\ last.op = "get"
    /\ KeyHist.kind = "set"
    /\ KeyHist.gets = 1
    /\ last.ret = "A"

\* the positions of a call that waits for the lock or has none to wait for
Outside == { "idle", "set", "cleanup", "info" }

C17_WitnessInvalidate ==
    /\ last.op = "invalidate"
    /\ last.key \notin DOMAIN last.pre_cache
    /\ last.ret = FALSE

\* a sweep and clear answered 0 on an empty store
C17_WitnessEmptySweep ==
    /\ last.op \in Sweeps \cup { "clear" }
    /\ last.pre_cache = << >>
    /\ last.ret = 0

\* get_cache_info answered on a store whose only entry had expired
C17_WitnessInfo ==
    /\ last.op = "get_cache_info"
    /\ last.ret.total_entries = 1
    /\ last.ret.expired_entries = 1

\* an entry set with ttl_override 0 was stored
C17_WitnessZeroTtl ==
    /\ last.op = "set"
    /\ last.arg[3] = <<0>>

\* the history h is that of a finished set with a negative ttl_override
NegativeTtl(h) == h.kind = "set" /\ h.ttl # <<>> /\ h.ttl[1] < 0

\* C18: a set with a negative ttl_override is carried out as given: the
\* stored entry's expiration lies before its creation, and the first get of
\* the key, at the clock value of the set or later, returns absent, removes
\* the entry and counts one eviction and one miss.
C18_NegativeTtl ==
    /\ \A k \in DOMAIN cache :
          NegativeTtl(hist[k])
          => /\ cache[k].expires_at < cache[k].created_at
             /\ cache[k].expires_at = cache[k].created_at + hist[k].ttl[1]
             /\ cache[k].data = hist[k].data
    /\ ( last.op = "get" /\ NegativeTtl(KeyHist) /\ KeyHist.gets = 0 )
       => /\ last.ret = None
          /\ StoreMinus({ last.key })
          /\ StatsDelta(0, 1, 1, 0)

\* the first get of a key set with ttl_override -1, at the clock value the
\* set read, found the entry stored and returned absent
C18_Witness ==
    /\ last.op = "get"
    /\ NegativeTtl(KeyHist)
    /\ KeyHist.gets = 0
    /\ last.at = KeyHist.at
    /\ last.key \in DOMAIN last.pre_cache
    /\ last.ret = None
    /\ stats.evictions = last.pre_stats.evictions + 1

\* an entry set with ttl_override -1 is in the store
C18_WitnessStored ==
    \E k \in DOMAIN cache : NegativeTtl(hist[k]) /\ cache[k].expires_at = now - 1

\* the built-in TTL of each category, in seconds
BuiltinTtl ==
    [ player_data |-> 3600, league_settings |-> 86400, matchup_data |-> 3600,
      trending_players |-> 1800, roster_data |-> 900 ]

\* the TTL of category dt on a manager constructed with the argument arg
ManagerTtl(arg, dt) == IF dt \in DOMAIN arg THEN arg[dt] ELSE BuiltinTtl[dt]

\* C19: for every entry a set created, expiration - creation is the
\* ttl_override when one was given (0 included), and otherwise the
\* manager's TTL of the entry's category: the constructor's value for that
\* category if it gave one, else the built-in default; the categories the
\* constructor did not name keep their defaults.
C19_Ttl ==
    /\ \A k \in DOMAIN cache :
          /\ hist[k].kind = "set"
          /\ cache[k].data_type = hist[k].data_type
          /\ cache[k].expires_at - cache[k].created_at
                = IF hist[k].ttl # <<>> THEN hist[k].ttl[1]
                  ELSE ManagerTtl(init_ttl_config, cache[k].data_type)
    /\ \A dt \in CacheDataType : ttl_config[dt] = ManagerTtl(init_ttl_config, dt)
    /\ \A dt \in CacheDataType \ DOMAIN init_ttl_config : ttl_config[dt] = BuiltinTtl[dt]

\* on a manager constructed with 1 second for ROSTER_DATA only, a roster
\* entry lives 1 second and a league-settings entry 86400
C19_Witness ==
    /\ DOMAIN init_ttl_config = { "roster_data" }
    /\ \E k \in DOMAIN cache :
          /\ hist[k].ttl = <<>>
          /\ cache[k].data_type = "roster_data"
          /\ cache[k].expires_at = cache[k].created_at + 1
    /\ \E k \in DOMAIN cache :
          /\ hist[k].ttl = <<>>
          /\ cache[k].data_type = "league_settings"
          /\ cache[k].expires_at = cache[k].created_at + 86400

\* on a manager constructed with an override for ROSTER_DATA, an entry set
\* with ttl_override 0 expires at its creation time
C19_WitnessZeroOverride ==
    /\ DOMAIN init_ttl_config = { "roster_data" }
    /\ \E k \in DOMAIN cache :
          /\ hist[k].ttl = <<0>>
          /\ cache[k].data_type = "roster_data"
          /\ cache[k].expires_at = cache[k].created_at
          /\ cache[k].created_at > 0

\* C20: the category passed to get does not matter: in every state of the
\* store and the clock, get of a key returns the same value and leaves the
\* same store and the same counters whichever category it is given, also
\* one that differs from the category the entry was stored with (the
\* outcomes over all categories are one and the same); and what the last
\* get did is what it would have done with any other category.
C20_CategoryIgnored ==
    /\ \A key \in Keys :
          Cardinality({ get_outcome(cache, stats, now, key, d) : d \in CacheDataType }) = 1
    /\ last.op = "get"
       => { get_outcome(last.pre_cache, last.pre_stats, last.at, last.key, d) :
               d \in CacheDataType }
             = { [ cache |-> cache, stats |-> stats, ret |-> last.ret ] }

\* a get that passed a category other than the stored one returned the
\* payload and counted a hit
C20_Witness ==
    /\ last.op = "get"
    /\ last.key \in DOMAIN last.pre_cache
    /\ last.arg # last.pre_cache[last.key].data_type
    /\ last.ret = "A"
    /\ stats.hits = last.pre_stats.hits + 1

\* a get that passed a category other than the stored one evicted the
\* expired entry
C20_WitnessExpired ==
    /\ last.op = "get"
    /\ last.key \in DOMAIN last.pre_cache
    /\ last.arg # last.pre_cache[last.key].data_type
    /\ last.key \notin DOMAIN cache
    /\ stats.evictions = last.pre_stats.evictions + 1

\* C21: a stored entry is never modified: in every step of every operation
\* a key that is in the store before and after the step holds the same
\* entry (payload, category, creation time, expiration), unless the step is
\* the store of a set of that key, which puts the set's new entry there; a
\* hit in particular leaves the expiration as it was.
C21_EntriesImmutable ==
    [][ \A k \in (DOMAIN cache) \cap (DOMAIN cache') :
           cache'[k] # cache[k]
           => \E t \in Threads :
                 /\ pc[t] = "set"
                 /\ pc'[t] = "idle"
                 /\ local[t].key = k
                 /\ cache'[k] = local[t].entry ]_vars

\* a get at a later clock value than the entry's creation was a hit and the
\* entry is in the store as the get found it
C21_Witness ==
    /\ last.op = "get"
    /\ last.ret = "A"
    /\ last.key \in DOMAIN last.pre_cache
    /\ last.at > last.pre_cache[last.key].created_at
    /\ last.key \in DOMAIN last.post_cache
    /\ last.post_cache[last.key] = last.pre_cache[last.key]

\* a cleanup that removed one entry left the other one as it was
C21_WitnessCleanup ==
    /\ last.op = "cleanup_expired"
    /\ last.ret = 1
    /\ \E k \in DOMAIN last.post_cache : last.post_cache[k] = last.pre_cache[k]

\* the sum of the field `field` of the per-category records by_type over
\* the categories tys
RECURSIVE SumBy(_, _, _)
SumBy(by_type, tys, field) ==
    IF tys = {} THEN 0
    ELSE LET ty == CHOOSE x \in tys : TRUE
         IN by_type[ty][field] + SumBy(by_type, tys \ {ty}, field)

\* C22: get_cache_info reports the store as it finds it: total_entries is
\* the number of stored entries and the sum of the per-category counts,
\* expired_entries is the sum of the per-category expired counts and the
\* number of stored entries whose expiration has passed at the time of the
\* scan, the categories listed are those of the stored entries; on an empty
\* store everything is 0 and no category is listed; the store and the
\* counters are left as found.
C22_CacheInfo ==
    last.op = "get_cache_info"
    => LET c == last.pre_cache
           info == last.ret
           by_type == info.entries_by_type
       IN /\ info.total_entries = Cardinality(DOMAIN c)
          /\ info.total_entries = SumBy(by_type, DOMAIN by_type, "count")
          /\ info.expired_entries = SumBy(by_type, DOMAIN by_type, "expired")
          /\ info.expired_entries
                = Cardinality({ k \in DOMAIN c : last.at > c[k].expires_at })
          /\ DOMAIN by_type = { c[k].data_type : k \in DOMAIN c }
          /\ \A ty \in DOMAIN by_type :
                by_type[ty].count = Cardinality({ k \in DOMAIN c : c[k].data_type = ty })
          /\ c = << >>
             => /\ info.total_entries = 0
                /\ info.expired_entries = 0
                /\ by_type = << >>
                /\ info.oldest_entry_age = 0
                /\ info.newest_entry_age = 0
          /\ last.post_cache = c
          /\ last.post_stats = last.pre_stats

\* get_cache_info found two entries of two categories, one of them expired
\* since the call read the clock
C22_Witness ==
    /\ last.op = "get_cache_info"
    /\ last.ret.total_entries = 2
    /\ last.ret.expired_entries = 1
    /\ Cardinality(DOMAIN last.ret.entries_by_type) = 2
    /\ last.at > last.arg

\* get_cache_info found the store empty
C22_WitnessEmpty ==
    /\ last.op = "get_cache_info"
    /\ last.pre_cache = << >>
    /\ last.ret.total_entries = 0
    /\ last.ghost.added > 0

\* C23: all calls of get_cache_manager return the same instance, first
\* calls made at the same time from several threads included: one instance
\* is constructed, every reference returned is that instance, and a key
\* set through one reference is stored in the instance every other
\* reference denotes.
C23_Singleton ==
    /\ Len(glob.stores) <= 1
    /\ \A t \in Threads, u \in Threads :
          ( glob.got[t] # 0 /\ glob.got[u] # 0 )
          => /\ glob.got[t] = glob.got[u]
             /\ glob.stores[glob.got[t]] = glob.stores[glob.got[u]]

\* two threads hold references, and a key set through one of them is stored
\* in the instance of the other
C23_WitnessShared ==
    \E t \in Threads, u \in Threads :
       /\ t # u
       /\ glob.got[t] # 0
       /\ glob.got[u] = glob.got[t]
       /\ glob.stores[glob.got[u]] # {}

\* C24: every call of _make_request makes at most max_retries + 1 HTTP
\* attempts and ends by returning the parsed JSON of a 200 response or by
\* raising SleeperAPIError (RateLimitError included); retry_count never
\* exceeds max_retries, and a call retries only on a 429, a 5xx, a timeout
\* or a request error.
C24_MakeRequest ==
    \A c \in Coroutines :
       /\ client.co[c].attempts <= max_retries + 1
       /\ client.co[c].retry_count <= max_retries
       /\ client.co[c].retried_on \in { "none", "429", "5xx", "TimeoutException", "RequestError" }
       /\ client.co[c].result \in { "none", "json", "SleeperAPIError", "RateLimitError" }

\* the bounds of C24 alone, which hold whatever the call ends with
C24_Bounded ==
    \A c \in Coroutines :
       /\ client.co[c].attempts <= max_retries + 1
       /\ client.co[c].retry_count <= max_retries
       /\ client.co[c].retried_on \in { "none", "429", "5xx", "TimeoutException", "RequestError" }
       /\ client.co[c].result = "RateLimitError" => client.co[c].attempts = max_retries + 1

\* a call used all its attempts and ended with RateLimitError
C24_WitnessExhausted ==
    \E c \in Coroutines :
       /\ client.co[c].result = "RateLimitError"
       /\ client.co[c].attempts = max_retries + 1


\* C25: any two requests sent through one SleeperClient, requests of
\* coroutines running at the same time included, leave
\* _wait_for_rate_limit at times that differ by at least rate_limit_delay.
\* (The clock never goes back, so it is enough to compare each request with
\* the one before it.)
C25_MinimumDelay ==
    Len(client.sent) = 2 => client.sent[2] - client.sent[1] >= rate_limit_delay

\* two requests left _wait_for_rate_limit at the same time while both
\* coroutines were inside _make_request
C25_WitnessTogether ==
    /\ Len(client.sent) = 2
    /\ client.sent[2] = client.sent[1]
    /\ \A c \in Coroutines : client.co[c].pc = "request"

\* C26: between two assignments of _rate_limit_reset_time at most 60
\* requests pass _wait_for_rate_limit, also when several coroutines are
\* inside it at the same time.
C26_WindowLimit == client.window <= WindowLimit

\* a request waited for the end of a full window and then passed
C26_WitnessWaited ==
    /\ client.window = 1
    /\ client.rate_limit_reset_time > Epoch + WindowSeconds
    /\ client.sent = << Epoch, Epoch + 1 >>


\* the increments of counter c that the caller inside the lock has still to
\* write for deletions it has made
RECURSIVE PendingIn(_, _)
PendingIn(incs, c) ==
    IF incs = << >> THEN 0
    ELSE (IF Head(incs)[1] = c THEN Head(incs)[2] ELSE 0) + PendingIn(Tail(incs), c)

Pending(c) == IF lock \in Threads THEN PendingIn(frame[lock].incs, c) ELSE 0

\* C27: entry conservation. The number of stored entries is the number of
\* sets that added a key not present, minus the evictions, minus the
\* invalidations: exactly so whenever no caller is inside the lock, and up
\* to the increments the caller inside the lock has still to write
\* otherwise. The evictions change only in a get (on an expired entry) and
\* in cleanup_expired, the invalidations only in invalidate,
\* invalidate_by_pattern, invalidate_by_type and clear, and the store of a
\* set changes no counter.
C27_Conservation ==
    /\ [] ( Cardinality(DOMAIN cache)
              = ghost.added - (stats.evictions + Pending("evictions"))
                            - (stats.invalidations + Pending("invalidations")) )
    /\ [] ( lock = "free" => Pending("evictions") + Pending("invalidations") = 0 )
    /\ [][ /\ stats'.evictions # stats.evictions
              => /\ lock \in Threads
                 /\ frame[lock].op \in { "get", "cleanup_expired" }
                 /\ frame[lock].op = "get" => frame[lock].removed = { frame[lock].key }
           /\ stats'.invalidations # stats.invalidations
              => /\ lock \in Threads
                 /\ frame[lock].op \in { "invalidate", "invalidate_by_pattern",
                                         "invalidate_by_type", "clear" }
           /\ \A t \in Threads :
                 ( pc[t] = "set" /\ pc'[t] = "idle" ) => stats' = stats ]_vars

\* two entries were added and one of them was evicted by a get
C27_Witness ==
    /\ lock = "free"
    /\ last.op = "get"
    /\ ghost.added = 2
    /\ stats.evictions = 1
    /\ stats.invalidations = 0
    /\ Cardinality(DOMAIN cache) = 1

\* two entries were added and one of them was invalidated
C27_WitnessInvalidated ==
    /\ lock = "free"
    /\ ghost.added = 2
    /\ stats.evictions = 0
    /\ stats.invalidations = 1
    /\ Cardinality(DOMAIN cache) = 1

\* a sweep has deleted an entry and not yet written its counter
C27_WitnessPending ==
    /\ Pending("evictions") = 1
    /\ stats.evictions = 0
    /\ ghost.added = 2
    /\ Cardinality(DOMAIN cache) = 1


\* C28: get, cleanup_expired and get_cache_info, run at the same clock
\* value, agree on which stored entries are expired, also when the clock
\* equals an entry's expiration: the entries cleanup_expired would remove
\* are those a get would not count as a hit, and their number is the
\* expired_entries of get_cache_info.
C28_ExpiryAgreement ==
    /\ \A key \in DOMAIN cache :
          ( key \in ExpiredKeys(cache, now) )
          <=> ( get_outcome(cache, stats, now, key, cache[key].data_type).stats.hits = stats.hits )
    /\ get_cache_info(cache, now, now).expired_entries
          = Cardinality(ExpiredKeys(cache, now))

\* an entry is stored and the clock is past its expiration, where the three
\* operations do agree
C28_WitnessPast ==
    \E key \in DOMAIN cache :
       /\ now > cache[key].expires_at
       /\ key \in ExpiredKeys(cache, now)
       /\ get_outcome(cache, stats, now, key, cache[key].data_type).ret = None
       /\ get_cache_info(cache, now, now).expired_entries >= 1


\* C29: get_cache_info always reports 0 <= newest_entry_age <=
\* oldest_entry_age, also when another caller's set stores an entry between
\* the clock read of get_cache_info and its taking of the lock.
C29_Ages ==
    last.op = "get_cache_info"
    => /\ 0 <= last.ret.newest_entry_age
       /\ last.ret.newest_entry_age <= last.ret.oldest_entry_age

\* the order of the two ages alone, which holds in every interleaving
C29_Ordered ==
    last.op = "get_cache_info"
    => last.ret.newest_entry_age <= last.ret.oldest_entry_age

\* get_cache_info scanned two entries of different ages
C29_WitnessTwoAges ==
    /\ last.op = "get_cache_info"
    /\ last.ret.total_entries = 2
    /\ last.ret.newest_entry_age < last.ret.oldest_entry_age


\* C30: a get returns the absent value (None) if and only if it recorded a
\* miss, for every payload set accepts: a hit is never mistaken for a miss
\* by a caller that tests the result against None.
C30_NoneIffMiss ==
    last.op = "get"
    => ( last.ret = None <=> stats.misses = last.pre_stats.misses + 1 )

\* one half of C30, which holds: a get that recorded a miss returned None
C30_MissGivesNone ==
    ( last.op = "get" /\ stats.misses = last.pre_stats.misses + 1 )
    => last.ret = None

\* a get recorded a hit on an entry whose payload is not None and returned
\* that payload
C30_WitnessHit ==
    /\ last.op = "get"
    /\ stats.hits = last.pre_stats.hits + 1
    /\ last.ret # None
    /\ last.ret = cache[last.key].data

====
